---- MODULE Spec2Model ----
(***************************************************************************)
(* Order lifecycle and risk-control engine of quant-engine.                *)
(*                                                                         *)
(* The model follows src/src/quant_engine: models/order.py,                *)
(* models/signal.py, storage/repository.py (OrderRepository,               *)
(* TradeLogRepository), core/risk.py (RiskManager) and core/executor.py    *)
(* (OrderExecutor).  The Broker is the abstract interface of               *)
(* adapters/broker/base.py: every answer it may give is a nondeterministic *)
(* choice.                                                                 *)
(*                                                                         *)
(* Conventions.  Python None is 0 for order, signal and broker ids,       *)
(* NoPrice for prices and NoMsg for messages.  Money is counted in whole   *)
(* units and a ratio r is carried as the integer 100*r, so that the        *)
(* Decimal comparison  a > b * r  becomes  a * 100 > b * pct.  Timestamps  *)
(* (created_at, updated_at, executed_at) are not modelled.                 *)
(***************************************************************************)
EXTENDS Integers, Sequences, FiniteSets, TLC

\* ------------------------------------------------------------------ bounds
\* number of order ids uuid4 may hand out in one behaviour
MaxOrders == 1
\* largest target_quantity / quantity of an input
MaxQty == 1
\* largest price of an input
MaxPrice == 2
\* number of orders the broker accepts in one behaviour
MaxBrokerOrders == 2
\* number of rows the audit log may hold
MaxLog == 2
\* number of caller-held signal objects
MaxSignals == 1
\* number of runs of execute_signals in one behaviour
MaxCycles == 2
\* number of orders the runs of execute_signals may create
MaxCycleOrders == 2
\* largest filled price the broker reports
MaxFillPrice == 1

OrderIds == 1..MaxOrders
SignalIds == 1..MaxSignals
BrokerIds == 1..MaxBrokerOrders

\* ------------------------------------------------------------ models/order.py
OrderStatus ==
  {"PENDING", "SUBMITTED", "PARTIAL_FILLED", "FILLED", "CANCELLED", "REJECTED", "FAILED"}

OrderDirection == {"BUY", "SELL"}

OrderType == {"MARKET", "LIMIT"}

NoPrice == 0 - 1

Prices == {NoPrice} \cup (0..MaxPrice)

\* Order.filled_price
FillPrices == {NoPrice} \cup (0..MaxFillPrice)

NoMsg == "None"

EmptyMsg == ""

Messages == {NoMsg, EmptyMsg, "rejected"}

\* Python truthiness of an Optional[str]
Truthy(msg) == msg # NoMsg /\ msg # EmptyMsg

\* Python truthiness of an Optional[Decimal]: None and Decimal("0") are falsy
PriceTruthy(p) == p # NoPrice /\ p # 0

\* the models without use_enum_values: a validated field keeps the enum
\* member, execute_signal goes past line 77 and the broker receives the order
keeps_enum_members == FALSE

\* model_config = {"use_enum_values": True}: a field that went through
\* validation holds the plain value of the enum, not the member
use_enum_values == TRUE

\* whether a field given an enum member still holds a member (an object with
\* a .value attribute) after the constructor validated it
Validated(is_enum) == IF use_enum_values THEN FALSE ELSE is_enum

\* Order(...) with the defaults of the model's fields; dir_is_enum tells
\* whether order.direction is an enum member
Order(id, symbol, direction, quantity, price, order_type, signal_id) ==
  [id |-> id, symbol |-> symbol, direction |-> direction,
   dir_is_enum |-> Validated(TRUE), quantity |-> quantity,
   price |-> price, order_type |-> order_type, status |-> "PENDING",
   filled_quantity |-> 0, filled_price |-> NoPrice, broker_order_id |-> 0,
   signal_id |-> signal_id, error_message |-> NoMsg]

\* the lifecycle fields of an order object, the ones a stored row keeps
Life(order) ==
  [id |-> order.id, quantity |-> order.quantity, status |-> order.status,
   filled_quantity |-> order.filled_quantity,
   filled_price |-> order.filled_price,
   broker_order_id |-> order.broker_order_id,
   error_message |-> order.error_message]

NoOrder == Life(Order(0, "", "BUY", 0, NoPrice, "LIMIT", 0))

\* Field(gt=0) on Order.quantity: construction fails otherwise
OrderValid(quantity) == quantity > 0

Terminal == {"FILLED", "CANCELLED", "REJECTED", "FAILED"}

is_completed(order) == order.status \in Terminal

update_status(order, status, error_message) ==
  [order EXCEPT !.status = status,
                !.error_message = IF Truthy(error_message) THEN error_message ELSE @]

\* ----------------------------------------------------------- models/signal.py
mark_executed(signal, order_id) ==
  [signal EXCEPT !.executed = TRUE, !.order_id = order_id]

\* ------------------------------------------------------ storage/repository.py
\* A row of OrderTable, as _to_row writes it.  The columns kept are the ones
\* an operation of the executor reads or writes after the insert; symbol,
\* direction, price, order_type and signal_id are written once and never read
\* by it.
\* float(p) if p else None, lines 78 and 102: a price that is None or zero is
\* stored as NULL.  The prices of the model are whole units, which float and
\* the Numeric(12, 4) column keep as they are.
to_column(p) == IF PriceTruthy(p) THEN p ELSE NoPrice

\* Decimal(str(x)) if x else None, line 59
from_column(x) == IF PriceTruthy(x) THEN x ELSE NoPrice

to_row(order) ==
  [status |-> order.status, quantity |-> order.quantity,
   filled_quantity |-> order.filled_quantity,
   filled_price |-> to_column(order.filled_price),
   broker_order_id |-> order.broker_order_id,
   error_message |-> order.error_message]

to_model(id, row) ==
  [id |-> id, quantity |-> row.quantity, status |-> row.status,
   filled_quantity |-> row.filled_quantity,
   filled_price |-> from_column(row.filled_price),
   broker_order_id |-> row.broker_order_id,
   error_message |-> row.error_message]

\* save without its insert branch (lines 106-108)
save_update_only(st, order) ==
  IF order.id \in DOMAIN st
    THEN [st EXCEPT ![order.id] =
            [@ EXCEPT !.status = order.status,
                      !.filled_quantity = order.filled_quantity,
                      !.filled_price = to_column(order.filled_price),
                      !.broker_order_id = order.broker_order_id,
                      !.error_message = order.error_message]]
    ELSE st

\* OrderRepository.save: update the lifecycle columns of an existing row, else
\* insert the row
save(st, order) ==
  IF order.id \in DOMAIN st
    THEN [st EXCEPT ![order.id] =
            [@ EXCEPT !.status = order.status,
                      !.filled_quantity = order.filled_quantity,
                      !.filled_price = to_column(order.filled_price),
                      !.broker_order_id = order.broker_order_id,
                      !.error_message = order.error_message]]
    ELSE [o \in DOMAIN st \cup {order.id} |->
            IF o = order.id THEN to_row(order) ELSE st[o]]

Found(st, order_id) == order_id \in DOMAIN st

get_by_id(st, order_id) == to_model(order_id, st[order_id])

\* get_active_orders, as the set of ids it selects
get_active_orders(st) ==
  {o \in DOMAIN st : st[o].status \in {"SUBMITTED", "PARTIAL_FILLED"}}

\* SignalRepository._to_row: the columns of a new SignalTable row
signal_to_row(sig, obj) ==
  [symbol |-> sig.symbol, direction |-> sig.direction,
   target_quantity |-> sig.target_quantity,
   target_price |-> to_column(sig.target_price),
   executed |-> obj.executed, order_id |-> obj.order_id]

\* SignalRepository._to_model: a TradingSignal built, and so validated, from
\* a row; the fields execute_signal reads
signal_to_model(row) ==
  [symbol |-> row.symbol, direction |-> row.direction,
   dir_is_enum |-> Validated(TRUE),
   target_quantity |-> row.target_quantity,
   target_price |-> from_column(row.target_price)]

\* SignalRepository.get_pending_signals, as the ids of the rows it selects,
\* latest first
get_pending_signals(table) ==
  LET pending == {s \in DOMAIN table : ~table[s].executed}
      latest(S) == CHOOSE x \in S : \A y \in S : y <= x
      F[S \in SUBSET pending] ==
        IF S = {} THEN << >> ELSE << latest(S) >> \o F[S \ {latest(S)}]
  IN  F[pending]

\* TradeLogRepository.log: append one row, known by its level; when the
\* database raises (lines 594-596) the session is rolled back, no row is
\* written and nothing is raised
log(tl, level, db) == IF db = "ok" THEN Append(tl, level) ELSE tl

\* ------------------------------------------------------------- core/risk.py
RiskCheckResult(passed, rule) == [passed |-> passed, rule |-> rule]

\* Position.market_value
market_value(position) == position.quantity * position.current_price

\* the first position of the list with the given symbol, as next(...) finds it
FirstIndex(positions, symbol) ==
  IF \E i \in 1..Len(positions) : positions[i].symbol = symbol
    THEN CHOOSE i \in 1..Len(positions) :
           /\ positions[i].symbol = symbol
           /\ \A j \in 1..(i - 1) : positions[j].symbol # symbol
    ELSE 0

check_order_amount(cfg, order) ==
  IF order.price = NoPrice
    THEN RiskCheckResult(TRUE, "order_amount")
    ELSE IF order.price * order.quantity > cfg.max_order_amount
           THEN RiskCheckResult(FALSE, "order_amount")
           ELSE RiskCheckResult(TRUE, "order_amount")

\* _check_position_limit that leaves the held position out of the exposure
check_position_limit_order_only(cfg, order, account, positions) ==
  IF order.direction = "SELL"
    THEN RiskCheckResult(TRUE, "position_limit")
    ELSE LET order_value == (IF PriceTruthy(order.price) THEN order.price ELSE 0)
                              * order.quantity
         IN  IF order_value * 100 > account.total_asset * cfg.max_position_pct
               THEN RiskCheckResult(FALSE, "position_limit")
               ELSE RiskCheckResult(TRUE, "position_limit")

check_position_limit(cfg, order, account, positions) ==
  IF order.direction = "SELL"
    THEN RiskCheckResult(TRUE, "position_limit")
    ELSE LET i == FirstIndex(positions, order.symbol)
             current_value == IF i # 0 THEN market_value(positions[i]) ELSE 0
             order_value == (IF PriceTruthy(order.price) THEN order.price ELSE 0)
                              * order.quantity
             total_value == current_value + order_value
         IN  IF total_value * 100 > account.total_asset * cfg.max_position_pct
               THEN RiskCheckResult(FALSE, "position_limit")
               ELSE RiskCheckResult(TRUE, "position_limit")

check_holdings_limit(cfg, order, positions) ==
  IF order.direction = "SELL"
    THEN RiskCheckResult(TRUE, "holdings_limit")
    ELSE LET current_symbols ==
               {positions[i].symbol : i \in {j \in 1..Len(positions) : positions[j].quantity > 0}}
             is_new_position == order.symbol \notin current_symbols
         IN  IF is_new_position /\ Cardinality(current_symbols) >= cfg.max_holdings
               THEN RiskCheckResult(FALSE, "holdings_limit")
               ELSE RiskCheckResult(TRUE, "holdings_limit")

\* _check_daily_loss that fails already when the loss reaches the limit
check_daily_loss_at_limit(cfg, initial, account) ==
  IF initial <= 0
    THEN RiskCheckResult(TRUE, "daily_loss")
    ELSE IF (initial - account.total_asset) * 100 >= cfg.max_daily_loss_pct * initial
           THEN RiskCheckResult(FALSE, "daily_loss")
           ELSE RiskCheckResult(TRUE, "daily_loss")

check_daily_loss(cfg, initial, account) ==
  IF initial <= 0
    THEN RiskCheckResult(TRUE, "daily_loss")
    ELSE IF (initial - account.total_asset) * 100 > cfg.max_daily_loss_pct * initial
           THEN RiskCheckResult(FALSE, "daily_loss")
           ELSE RiskCheckResult(TRUE, "daily_loss")

\* Decimal.quantize of n / d to a whole number of units, for d > 0: the
\* nearest integer, a tie going to the even one (ROUND_HALF_EVEN)
QuantizeDiv(n, d) ==
  LET q == n \div d
      r == n % d
  IN  IF 2 * r > d THEN q + 1
      ELSE IF 2 * r < d THEN q
      ELSE IF q % 2 = 0 THEN q ELSE q + 1

\* Position.cost_value
cost_value(position) == position.quantity * position.avg_cost

\* Position.profit_loss
profit_loss(position) == market_value(position) - cost_value(position)

\* Position.profit_loss_ratio, in units of 0.0001 (the quantum it is
\* quantized to)
profit_loss_ratio(position) ==
  IF cost_value(position) = 0
    THEN 0
    ELSE IF cost_value(position) > 0
           THEN QuantizeDiv(profit_loss(position) * 10000, cost_value(position))
           ELSE QuantizeDiv((0 - profit_loss(position)) * 10000,
                            0 - cost_value(position))

check_stop_loss(cfg, position) ==
  IF position.quantity <= 0
    THEN RiskCheckResult(TRUE, "stop_loss")
    ELSE IF 0 - profit_loss_ratio(position) >= cfg.stop_loss_pct * 100
           THEN RiskCheckResult(FALSE, "stop_loss")
           ELSE RiskCheckResult(TRUE, "stop_loss")

check_take_profit(cfg, position) ==
  IF position.quantity <= 0
    THEN RiskCheckResult(TRUE, "take_profit")
    ELSE IF profit_loss_ratio(position) >= cfg.take_profit_pct * 100
           THEN RiskCheckResult(FALSE, "take_profit")
           ELSE RiskCheckResult(TRUE, "take_profit")

check_single_position_ratio(cfg, position, account) ==
  IF account.total_asset <= 0
    THEN RiskCheckResult(TRUE, "single_position_ratio")
    ELSE IF market_value(position) * 100 > cfg.max_position_pct * account.total_asset
           THEN RiskCheckResult(FALSE, "single_position_ratio")
           ELSE RiskCheckResult(TRUE, "single_position_ratio")

\* check_all: the daily-loss result, then three results per position
check_all(cfg, initial, account, positions) ==
  [k \in 1..(1 + 3 * Len(positions)) |->
     IF k = 1 THEN check_daily_loss(cfg, initial, account)
     ELSE LET position == positions[(k - 2) \div 3 + 1]
          IN  CASE (k - 2) % 3 = 0 -> check_stop_loss(cfg, position)
                [] (k - 2) % 3 = 1 -> check_take_profit(cfg, position)
                [] OTHER -> check_single_position_ratio(cfg, position, account)]

\* check_order that runs the four rules whether or not risk is enabled
check_order_ignores_enabled(cfg, initial, order, account, positions) ==
  LET checks == << check_order_amount(cfg, order),
                   check_position_limit(cfg, order, account, positions),
                   check_holdings_limit(cfg, order, positions),
                   check_daily_loss(cfg, initial, account) >>
  IN  IF \E i \in 1..4 : ~checks[i].passed
        THEN checks[CHOOSE i \in 1..4 :
                      /\ ~checks[i].passed
                      /\ \A j \in 1..(i - 1) : checks[j].passed]
        ELSE RiskCheckResult(TRUE, "all")

\* check_order that reports the last failing rule instead of the first
check_order_last_failing(cfg, initial, order, account, positions) ==
  IF ~cfg.enabled
    THEN RiskCheckResult(TRUE, "disabled")
    ELSE LET checks == << check_order_amount(cfg, order),
                          check_position_limit(cfg, order, account, positions),
                          check_holdings_limit(cfg, order, positions),
                          check_daily_loss(cfg, initial, account) >>
         IN  IF \E i \in 1..4 : ~checks[i].passed
               THEN checks[CHOOSE i \in 1..4 :
                             /\ ~checks[i].passed
                             /\ \A j \in (i + 1)..4 : checks[j].passed]
               ELSE RiskCheckResult(TRUE, "all")

check_order(cfg, initial, order, account, positions) ==
  IF ~cfg.enabled
    THEN RiskCheckResult(TRUE, "disabled")
    ELSE LET checks == << check_order_amount(cfg, order),
                          check_position_limit(cfg, order, account, positions),
                          check_holdings_limit(cfg, order, positions),
                          check_daily_loss(cfg, initial, account) >>
         IN  IF \E i \in 1..4 : ~checks[i].passed
               THEN checks[CHOOSE i \in 1..4 :
                             /\ ~checks[i].passed
                             /\ \A j \in 1..(i - 1) : checks[j].passed]
               ELSE RiskCheckResult(TRUE, "all")

\* validate_order_or_raise raising a plain RiskControlError for every rule
RaisedFor_plain(result) ==
  IF result.passed THEN "none" ELSE "RiskControlError"

\* the exception validate_order_or_raise raises for a result; "none" when it
\* returns normally
RaisedFor(result) ==
  IF result.passed THEN "none"
  ELSE IF result.rule = "position_limit" THEN "PositionLimitError"
  ELSE IF result.rule = "daily_loss" THEN "DailyLossLimitError"
  ELSE IF result.rule = "stop_loss" THEN "StopLossError"
  ELSE "RiskControlError"

\* RiskCheckResult.message: the text the rule wrote for this result, known by
\* the rule and the outcome it was written for
result_message(result) == << result.rule, result.passed >>

\* the exception object validate_order_or_raise raises for a result: its
\* class, its message, and the rule attribute the constructors of
\* utils/exceptions.py leave
RaisedError(result) ==
  LET kind == RaisedFor(result)
  IN  [kind |-> kind,
       message |-> IF kind = "none" THEN << >> ELSE result_message(result),
       rule |-> CASE kind = "none" -> ""
                  [] kind = "PositionLimitError" -> "POSITION_LIMIT"
                  [] kind = "DailyLossLimitError" -> "DAILY_LOSS_LIMIT"
                  [] kind = "StopLossError" -> "STOP_LOSS"
                  [] OTHER -> result.rule]

\* validate_order_or_raise that lets a failed order-amount check through
validate_order_or_raise_lenient(cfg, initial, order, account, positions) ==
  IF check_order(cfg, initial, order, account, positions).rule = "order_amount"
    THEN "none"
    ELSE RaisedFor(check_order(cfg, initial, order, account, positions))

validate_order_or_raise(cfg, initial, order, account, positions) ==
  RaisedFor(check_order(cfg, initial, order, account, positions))

\* RiskControlError and its subclasses (utils/exceptions.py)
RiskErrors ==
  {"RiskControlError", "PositionLimitError", "DailyLossLimitError", "StopLossError"}

\* -------------------------------------------------------- core/scheduler.py
\* a str is the sequence of its characters
DigitChars == << "0", "1", "2", "3", "4", "5", "6", "7", "8", "9" >>

\* int(c) for one decimal digit
DigitValue(c) == (CHOOSE i \in 1..10 : DigitChars[i] = c) - 1

\* int(chars) for a run of decimal digits
RECURSIVE int(_)
int(chars) ==
  IF Len(chars) = 0 THEN 0
  ELSE 10 * int(SubSeq(chars, 1, Len(chars) - 1)) + DigitValue(chars[Len(chars)])

\* time_str.split(":")
split(chars) ==
  LET colons == {i \in 1..Len(chars) : chars[i] = ":"}
      cut(i) == IF \E j \in colons : j > i
                  THEN CHOOSE j \in colons : j > i /\ \A k \in colons : k > i => j <= k
                  ELSE Len(chars) + 1
      starts == << 1 >> \o [n \in 1..Cardinality(colons) |->
                             1 + CHOOSE j \in colons :
                                   Cardinality({k \in colons : k <= j}) = n]
  IN  [n \in 1..Len(starts) |-> SubSeq(chars, starts[n], cut(starts[n] - 1) - 1)]

\* datetime.time: hour, minute, and second for the seconds and microseconds
Time(hour, minute, second) == [hour |-> hour, minute |-> minute, second |-> second]

\* _parse_time: time(int(parts[0]), int(parts[1]))
parse_time(time_str) ==
  LET parts == split(time_str)
  IN  Time(int(parts[1]), int(parts[2]), 0)

\* a < b on datetime.time
time_lt(a, b) ==
  \/ a.hour < b.hour
  \/ a.hour = b.hour /\ a.minute < b.minute
  \/ a.hour = b.hour /\ a.minute = b.minute /\ a.second < b.second

\* a <= b on datetime.time
time_le(a, b) == ~time_lt(b, a)

\* dt.time()
time_of(dt) == Time(dt.hour, dt.minute, dt.second)

\* dt.weekday(), days being counted from a Monday
weekday(dt) == dt.day % 7

\* TradingScheduler.__init__
TradingScheduler(trading_hours) ==
  [morning_start |-> parse_time(trading_hours.morning_start),
   morning_end |-> parse_time(trading_hours.morning_end),
   afternoon_start |-> parse_time(trading_hours.afternoon_start),
   afternoon_end |-> parse_time(trading_hours.afternoon_end)]

\* is_trading_time with the ends of both windows left out
is_trading_time_open_windows(sch, dt) ==
  IF weekday(dt) >= 5
    THEN FALSE
    ELSE LET current_time == time_of(dt)
         IN  \/ time_lt(sch.morning_start, current_time)
                  /\ time_lt(current_time, sch.morning_end)
             \/ time_lt(sch.afternoon_start, current_time)
                  /\ time_lt(current_time, sch.afternoon_end)

is_trading_time(sch, dt) ==
  IF weekday(dt) >= 5
    THEN FALSE
    ELSE LET current_time == time_of(dt)
             in_morning == time_le(sch.morning_start, current_time)
                             /\ time_le(current_time, sch.morning_end)
             in_afternoon == time_le(sch.afternoon_start, current_time)
                               /\ time_le(current_time, sch.afternoon_end)
         IN  in_morning \/ in_afternoon

\* None, for an Optional[datetime]
NoInstant == [day |-> 0 - 1, hour |-> 0, minute |-> 0, second |-> 0]

\* get_next_trading_time that looks ahead to the next day's morning start
get_next_trading_time_next_day(sch, dt) ==
  LET current_time == time_of(dt)
  IN  IF time_lt(current_time, sch.morning_start)
        THEN [dt EXCEPT !.hour = sch.morning_start.hour,
                        !.minute = sch.morning_start.minute, !.second = 0]
      ELSE IF time_lt(sch.morning_end, current_time)
                /\ time_lt(current_time, sch.afternoon_start)
        THEN [dt EXCEPT !.hour = sch.afternoon_start.hour,
                        !.minute = sch.afternoon_start.minute, !.second = 0]
      ELSE [dt EXCEPT !.day = @ + 1, !.hour = sch.morning_start.hour,
                      !.minute = sch.morning_start.minute, !.second = 0]

get_next_trading_time(sch, dt) ==
  LET current_time == time_of(dt)
  IN  IF time_lt(current_time, sch.morning_start)
        THEN [dt EXCEPT !.hour = sch.morning_start.hour,
                        !.minute = sch.morning_start.minute, !.second = 0]
      ELSE IF time_lt(sch.morning_end, current_time)
                /\ time_lt(current_time, sch.afternoon_start)
        THEN [dt EXCEPT !.hour = sch.afternoon_start.hour,
                        !.minute = sch.afternoon_start.minute, !.second = 0]
      ELSE NoInstant

\* ------------------------------------------------------------------ inputs
\* number of positions in a snapshot handed to one call
MaxPositions == 1

Symbols == {"A", "B"}

\* the TradingSignal fields execute_signal reads; dir_is_enum tells whether
\* signal.direction is an enum member (assigned after construction) or the
\* plain value the validating constructor leaves
SignalInputs ==
  [symbol : {"A"}, direction : OrderDirection, dir_is_enum : BOOLEAN,
   target_quantity : 0..MaxQty, target_price : Prices]

Accounts == [total_asset : {4, 10}]

Positions == [symbol : Symbols, quantity : 0..1, current_price : {1}]

PositionLists == UNION {[1..n -> Positions] : n \in 0..MaxPositions}

\* RiskConfig (utils/config.py), with limits scaled to the input ranges
RiskConfigs ==
  [enabled : {TRUE}, max_order_amount : {1}, max_position_pct : {50},
   max_holdings : {1}, max_daily_loss_pct : {50}, stop_loss_pct : {50},
   take_profit_pct : {50}]

InitialAssets == {0}

\* OrderResult (adapters/broker/base.py)
OrderResult(success, broker_order_id, message) ==
  [success |-> success, broker_order_id |-> broker_order_id, message |-> message]

NoResult == OrderResult(FALSE, 0, NoMsg)

\* -------------------------------------------------------------------- state
VARIABLES
  store,          \* OrderTable: order id -> row, for the ids that have a row
  tradeLog,       \* TradeLogTable: the audit rows, oldest first
  signals,        \* the caller's TradingSignal objects: executed, order_id
  config,         \* RiskManager._config
  initial_asset,  \* RiskManager._initial_asset
  daily_loss,     \* RiskManager._daily_loss
  riskCall,       \* the caller's last call on the RiskManager, with its result
  scheduler,      \* TradingScheduler: the parsed times of its windows
  schedCall,      \* the caller's last call on the TradingScheduler, with its result
  signalTable,    \* SignalTable: the stored row of each signal
  cycle,          \* execute_signals (cli/signal_cmd.py): the signals it still has to run
  held,           \* an Order object in the hands of a caller
  nextId,         \* the next id uuid4 gives to an order
  brokerSeen,     \* ids of the orders passed to Broker.submit_order so far
  brokerBook,     \* the orders the broker accepted; broker id = position
  tables,         \* whether the tables of the database exist
  pc,             \* position of the running call: "idle" between calls,
                  \* "done" when a call has just ended
  cur,            \* locals of the running call
  last            \* outcome of the call that has just ended

vars ==
  << store, tradeLog, signals, config, initial_asset, daily_loss, riskCall, scheduler, schedCall, held, nextId, brokerSeen,
     brokerBook, tables, pc, cur, last, signalTable, cycle >>

\* check_order was not reached
NoRisk == RiskCheckResult(TRUE, "n/a")

\* execute_signals is not running.  pending is the list of signals a run
\* read, by_id whether it read it with --id, queue the part of it the loop has
\* not reached and raised the exception of each execute_signal call of the
\* run.  Three fields keep what the runs did so far: round counts the runs,
\* called lists the signal ids execute_signal was called with and submitted
\* the signal ids whose order was passed to Broker.submit_order.
NoCycle ==
  [active |-> FALSE, by_id |-> FALSE, pending |-> << >>, queue |-> << >>,
   raised |-> << >>, account |-> [total_asset |-> 0], positions |-> << >>,
   round |-> 0, called |-> << >>, submitted |-> << >>]

\* no TradingScheduler has been constructed
NoScheduler ==
  [morning_start |-> Time(0, 0, 0), morning_end |-> Time(0, 0, 0),
   afternoon_start |-> Time(0, 0, 0), afternoon_end |-> Time(0, 0, 0)]

\* no call on the TradingScheduler is being answered
NoSchedCall == [op |-> "none", dt |-> NoInstant, answer |-> FALSE, next |-> NoInstant]

\* no call on the RiskManager is being answered
NoCall ==
  [op |-> "none", order |-> Order(0, "", "BUY", 0, NoPrice, "LIMIT", 0),
   account |-> [total_asset |-> 0], positions |-> << >>, result |-> NoRisk,
   results |-> << >>, raised |-> RaisedError(NoRisk)]

\* locals of the running call.  For sync_all_active_orders: plan is the ids
\* of active_orders, queue the part of it the loop has not reached, visited
\* the ids sync_order_status was called with, seen what Broker.query_order
\* answered to each of these calls, updated the list updated_orders, refused
\* the kinds of database operations that raised so far.
Cur(op, sid, order, result) ==
  [op |-> op, sid |-> sid, order |-> order, result |-> result,
   risk |-> NoRisk, answer |-> "n/a", calls |-> << >>, queue |-> << >>,
   updated |-> << >>, plan |-> << >>, visited |-> << >>, seen |-> << >>,
   refused |-> {}]

NoCur == Cur("none", 0, NoOrder, NoResult)

\* no answer of Broker.query_order was seen
NoSnapshot ==
  [kind |-> "n/a", status |-> "PENDING", filled_quantity |-> 0,
   filled_price |-> NoPrice]

\* what a call left behind: the order it returned (NoOrder when it returned
\* none or raised), the boolean it returned, the exception it raised ("none"
\* when it returned), the check_order result it saw, the calls of
\* Broker.submit_order, cancel_order and query_order it made and the answer
\* the broker gave to the last of them ("n/a" when there was none).  obj is
\* the order object the call worked on, as it is in memory when the call
\* ends; list is the list sync_all_active_orders returned and seen what
\* Broker.query_order answered for each order of the pass; snapshot is what
\* Broker.query_order answered to sync_order_status; refused is the kinds of
\* database operations of the call that raised ("query", "save", "log").
Outcome(op, sid, oid, order, ok, raised, risk, calls, answer) ==
  [op |-> op, sid |-> sid, oid |-> oid, order |-> order, ok |-> ok,
   raised |-> raised, risk |-> risk, calls |-> calls, answer |-> answer,
   obj |-> order, list |-> << >>, snapshot |-> NoSnapshot, seen |-> << >>,
   refused |-> {}]

NoOutcome == Outcome("none", 0, 0, NoOrder, FALSE, "none", NoRisk, << >>, "n/a")

NewSignal == [executed |-> FALSE, order_id |-> 0]

\* what the database does with a commit: it performs it or it raises; without
\* the tables every statement raises (OperationalError: no such table)
DbAnswers == IF tables THEN {"ok", "raises"} ELSE {"raises"}

\* the outcome of a call in which database operations of these kinds raised
Refused(outcome, kinds) == [outcome EXCEPT !.refused = kinds]

Init ==
  /\ store = << >>
  /\ tradeLog = << >>
  /\ signals = [s \in SignalIds |-> NewSignal]
  /\ config \in RiskConfigs
  /\ initial_asset \in InitialAssets
  /\ daily_loss = 0
  /\ riskCall = NoCall
  /\ scheduler = NoScheduler
  /\ schedCall = NoSchedCall
  /\ signalTable = << >>
  /\ cycle = NoCycle
  /\ held = NoOrder
  /\ nextId = 1
  /\ brokerSeen = {}
  /\ brokerBook = << >>
  /\ tables = TRUE
  /\ pc = "idle"
  /\ cur = NoCur
  /\ last = NoOutcome

\* the caller takes the outcome of the call and goes on
return_to_caller ==
  /\ pc = "done"
  /\ ~cycle.active
  /\ pc' = "idle"
  /\ last' = NoOutcome
  /\ riskCall' = NoCall
  /\ schedCall' = NoSchedCall
  /\ UNCHANGED << store, tradeLog, signals, config, initial_asset, daily_loss,
                  held, nextId, brokerSeen, brokerBook, tables, cur, scheduler,
                  signalTable, cycle >>

\* -------------------------------------------------------- core/executor.py
\* _create_order_from_signal
create_order_from_signal(id, sid, sig) ==
  Order(id, sig.symbol, IF sig.direction = "BUY" THEN "BUY" ELSE "SELL",
        sig.target_quantity,
        sig.target_price,
        IF PriceTruthy(sig.target_price) THEN "LIMIT" ELSE "MARKET",
        sid)

\* the exception that ends execute_signal before the order is persisted
\* (lines 77-86), "none" when line 88 is reached.  fetch tells whether the
\* snapshots were obtained (from the caller or the broker) or the broker
\* raised when asked for them.
execute_signal_early(sig, fetch, account, positions) ==
  IF ~sig.dir_is_enum THEN "AttributeError"
  ELSE IF ~OrderValid(sig.target_quantity) THEN "ValidationError"
  ELSE IF fetch = "broker_raises" THEN "BrokerNotConnectedError"
  ELSE validate_order_or_raise(config, initial_asset,
                               create_order_from_signal(nextId, 0, sig),
                               account, positions)

\* the rule of the check_order result execute_signal saw
execute_signal_rule(sig, fetch, account, positions) ==
  IF sig.dir_is_enum /\ OrderValid(sig.target_quantity) /\ fetch # "broker_raises"
    THEN check_order(config, initial_asset,
                     create_order_from_signal(nextId, 0, sig),
                     account, positions)
    ELSE NoRisk

\* execute_signal, lines 77-88: build the order, validate it, persist it; an
\* exception of the save of line 88 leaves the call
execute_signal_lines_77_88(sid, sig, fetch, account, positions, db) ==
  LET raised == execute_signal_early(sig, fetch, account, positions)
      risk == execute_signal_rule(sig, fetch, account, positions)
      order == create_order_from_signal(nextId, sid, sig)
  IN  /\ Len(tradeLog) < MaxLog
      /\ IF raised # "none"
           THEN /\ last' = Outcome("execute_signal", sid, 0, NoOrder, FALSE,
                                   raised, risk, << >>, "n/a")
                /\ pc' = "done"
                /\ UNCHANGED << store, nextId, cur >>
           ELSE IF db = "raises"
             THEN /\ last' = Refused(Outcome("execute_signal", sid, 0, NoOrder,
                                             FALSE, "OperationalError", risk,
                                             << >>, "n/a"),
                                     {"save"})
                  /\ pc' = "done"
                  /\ UNCHANGED << store, nextId, cur >>
             ELSE \* the runs of execute_signals have a bound of their own
                  /\ nextId <= (IF cycle.active THEN MaxCycleOrders ELSE MaxOrders)
                  /\ store' = save(store, order)
                  /\ nextId' = nextId + 1
                  /\ pc' = "execute_signal_submit"
                  /\ cur' = [Cur("execute_signal", sid, order, NoResult)
                               EXCEPT !.risk = risk]
                  /\ UNCHANGED last
      /\ UNCHANGED << tradeLog, signals, config, initial_asset, daily_loss, riskCall, scheduler, schedCall, held, brokerSeen,
                      brokerBook, tables, signalTable, cycle >>

\* a caller's execute_signal(signal, account, positions)
execute_signal_begin(sid, sig, fetch, account, positions, db) ==
  /\ pc = "idle"
  /\ execute_signal_lines_77_88(sid, sig, fetch, account, positions, db)

\* the answers Broker.submit_order may give: an accepted order, a result with
\* success=False, or an exception whose text is the message.  has_id tells
\* whether the result of an accepted order carries a broker order id:
\* OrderResult.broker_order_id is Optional (base.py, line 21).  taken tells
\* whether the broker holds the order after the call: it does when it
\* accepted it, and it may when the call raised, since the exception can come
\* after the order was placed (MiniQMTBroker.submit_order places the order at
\* line 184 and raises at line 196, where order.direction.value fails on the
\* plain string of a validated order; line 207 turns that into
\* OrderSubmitError)
SubmitAnswers ==
  [kind : {"accept"}, message : {NoMsg}, taken : {TRUE}, has_id : BOOLEAN]
    \cup [kind : {"reject"}, message : Messages, taken : {FALSE}, has_id : {FALSE}]
    \cup [kind : {"raise"}, message : {EmptyMsg, "rejected"}, taken : BOOLEAN,
          has_id : {FALSE}]

\* _submit_order: the broker's result, an exception turned into a failure
try_submit_order(answer, broker_order_id) ==
  IF answer.kind = "accept"
    THEN OrderResult(TRUE, IF answer.has_id THEN broker_order_id ELSE 0, NoMsg)
    ELSE OrderResult(FALSE, 0, answer.message)

\* line 90 of execute_signal and line 168 of submit_order: the broker call
BrokerSubmit(answer) ==
  /\ answer.taken => Len(brokerBook) < MaxBrokerOrders
  /\ brokerSeen' = brokerSeen \cup {cur.order.id}
  /\ brokerBook' = IF answer.taken
                     THEN Append(brokerBook, cur.order.id) ELSE brokerBook
  /\ UNCHANGED tables
  /\ cur' = [cur EXCEPT !.result = try_submit_order(answer, Len(brokerBook) + 1),
                        !.calls = Append(@, "submit_order"),
                        !.answer = answer.kind]

execute_signal_submit(answer) ==
  /\ pc = "execute_signal_submit"
  /\ BrokerSubmit(answer)
  /\ pc' = "execute_signal_finish"
  /\ UNCHANGED << store, tradeLog, signals, config, initial_asset, daily_loss, riskCall, scheduler, schedCall, held, nextId, last,
        signalTable, cycle >>

\* the kinds of database operations that raised, of an audit entry and a save
RefusedKinds(log_db, save_db) ==
  (IF log_db = "raises" THEN {"log"} ELSE {})
    \cup (IF save_db = "raises" THEN {"save"} ELSE {})

\* lines 92-107 once the audit entry was written or given up: the save of
\* line 107 and the return, or the exception of that save
execute_signal_saves(order, log_db, save_db) ==
  IF save_db = "ok"
    THEN /\ store' = save(store, order)
         /\ last' = Refused(Outcome("execute_signal", cur.sid, order.id,
                                    Life(order), TRUE, "none", cur.risk,
                                    cur.calls, cur.answer),
                            RefusedKinds(log_db, save_db))
    ELSE /\ store' = store
         /\ last' = Refused([Outcome("execute_signal", cur.sid, order.id,
                                     NoOrder, FALSE, "OperationalError",
                                     cur.risk, cur.calls, cur.answer)
                               EXCEPT !.obj = Life(order)],
                            RefusedKinds(log_db, save_db))

\* execute_signal, lines 92-108
execute_signal_finish(log_db, save_db) ==
  LET accepted == update_status(
                    [cur.order EXCEPT !.broker_order_id = cur.result.broker_order_id],
                    "SUBMITTED", NoMsg)
      rejected == update_status(cur.order, "REJECTED", cur.result.message)
  IN  /\ pc = "execute_signal_finish"
      /\ IF cur.result.success
           THEN /\ signals' = [signals EXCEPT ![cur.sid] = mark_executed(@, accepted.id)]
                /\ IF accepted.dir_is_enum
                     THEN /\ tradeLog' = log(tradeLog, "INFO", log_db)
                          /\ execute_signal_saves(accepted, log_db, save_db)
                     ELSE \* order.direction is a str: .value raises at line 97
                          /\ last' = [Outcome("execute_signal", cur.sid, accepted.id,
                                              NoOrder, FALSE, "AttributeError",
                                              cur.risk, cur.calls, cur.answer)
                                        EXCEPT !.obj = Life(accepted)]
                          /\ UNCHANGED << tradeLog, store >>
           ELSE /\ tradeLog' = log(tradeLog, "ERROR", log_db)
                /\ execute_signal_saves(rejected, log_db, save_db)
                /\ UNCHANGED signals
      /\ pc' = "done"
      /\ cur' = NoCur
      /\ UNCHANGED << config, initial_asset, daily_loss, riskCall, scheduler, schedCall, held, nextId, brokerSeen, brokerBook, tables,
        signalTable, cycle >>

\* the orders a caller hands to submit_order: a new Order, or one read back
\* from the store
SubmitInputs ==
  {Order(nextId, "A", d, q, NoPrice, "MARKET", 0) : d \in OrderDirection, q \in 1..MaxQty}
    \cup {get_by_id(store, o) : o \in DOMAIN store}

\* submit_order, line 166; an exception of the save leaves the call
submit_order_begin(order, db) ==
  /\ pc = "idle"
  /\ order.id \notin DOMAIN store => nextId <= MaxOrders
  /\ IF db = "ok"
       THEN /\ store' = save(store, order)
            /\ nextId' = IF order.id \in DOMAIN store THEN nextId ELSE nextId + 1
            /\ pc' = "submit_order_submit"
            /\ cur' = Cur("submit_order", 0, Life(order), NoResult)
            /\ UNCHANGED last
       ELSE /\ last' = Refused([Outcome("submit_order", 0, order.id, NoOrder,
                                        FALSE, "OperationalError", NoRisk,
                                        << >>, "n/a")
                                  EXCEPT !.obj = Life(order)],
                               {"save"})
            /\ pc' = "done"
            /\ UNCHANGED << store, nextId, cur >>
  /\ UNCHANGED << tradeLog, signals, config, initial_asset, daily_loss, riskCall, scheduler, schedCall, held, brokerSeen,
                  brokerBook, tables, signalTable, cycle >>

submit_order_submit(answer) ==
  /\ pc = "submit_order_submit"
  /\ BrokerSubmit(answer)
  /\ pc' = "submit_order_finish"
  /\ UNCHANGED << store, tradeLog, signals, config, initial_asset, daily_loss, riskCall, scheduler, schedCall, held, nextId, last,
        signalTable, cycle >>

\* submit_order, lines 170-178
submit_order_finish(db) ==
  LET accepted == update_status(
                    [cur.order EXCEPT !.broker_order_id = cur.result.broker_order_id],
                    "SUBMITTED", NoMsg)
      rejected == update_status(cur.order, "REJECTED", cur.result.message)
  IN  /\ pc = "submit_order_finish"
      /\ IF cur.result.success /\ db = "ok"
           THEN /\ store' = save(store, accepted)
                /\ last' = Outcome("submit_order", 0, accepted.id, accepted,
                                   TRUE, "none", NoRisk, cur.calls, cur.answer)
           ELSE IF cur.result.success
             THEN \* the save of line 177 raises
                  /\ last' = Refused([Outcome("submit_order", 0, accepted.id,
                                              NoOrder, FALSE, "OperationalError",
                                              NoRisk, cur.calls, cur.answer)
                                        EXCEPT !.obj = accepted],
                                     {"save"})
                  /\ UNCHANGED store
           ELSE /\ last' = [Outcome("submit_order", 0, rejected.id, NoOrder, FALSE,
                                    "OrderSubmitError", NoRisk, cur.calls,
                                    cur.answer)
                              EXCEPT !.obj = rejected]
                /\ UNCHANGED store
      /\ pc' = "done"
      /\ cur' = NoCur
      /\ UNCHANGED << tradeLog, signals, config, initial_asset, daily_loss, riskCall, scheduler, schedCall, held, nextId,
                      brokerSeen, brokerBook, tables, signalTable, cycle >>

\* the process stops between two steps of a call
crash ==
  /\ pc \notin {"idle", "done"}
  /\ pc' = "done"
  /\ cur' = NoCur
  /\ last' = [Outcome(cur.op, cur.sid, cur.order.id, NoOrder, FALSE, "crash",
                      cur.risk, cur.calls, cur.answer)
                EXCEPT !.list = cur.updated, !.seen = cur.seen]
  /\ UNCHANGED << store, tradeLog, signals, config, initial_asset, daily_loss, riskCall, scheduler, schedCall, held, nextId,
                  brokerSeen, brokerBook, tables, signalTable, cycle >>

\* execute_signal stops after the audit entry of lines 96-104 was committed
\* or given up, and before the save of line 107
execute_signal_stops_before_save(log_db) ==
  /\ pc = "execute_signal_finish"
  /\ cur.result.success => cur.order.dir_is_enum
  /\ tradeLog' = log(tradeLog, IF cur.result.success THEN "INFO" ELSE "ERROR",
                     log_db)
  /\ signals' = IF cur.result.success
                  THEN [signals EXCEPT ![cur.sid] = mark_executed(@, cur.order.id)]
                  ELSE signals
  /\ last' = Outcome("execute_signal", cur.sid, cur.order.id, NoOrder, FALSE,
                     "crash", cur.risk, cur.calls, cur.answer)
  /\ pc' = "done"
  /\ cur' = NoCur
  /\ UNCHANGED << store, config, initial_asset, daily_loss, riskCall,
                  scheduler, schedCall, held, nextId, brokerSeen, brokerBook,
                  tables, signalTable, cycle >>

\* the answers Broker.cancel_order may give
CancelAnswers == {"true", "false", "raises"}

\* line 199: if not order.broker_order_id
has_broker_id(order) == order.broker_order_id # 0

\* line 206: if success
cancel_succeeded(answer) == answer = "true"

\* cancel_order.  The query of line 190 raises when the tables are missing
\* and the save of line 201 raises when the database refuses it, and both
\* exceptions leave the call; an exception of the save of line 208 is caught
\* at line 214 with those of the broker, and the audit entry of line 209 is
\* given up in silence.
cancel_order(order_id, answer, save_db, log_db) ==
  LET order == get_by_id(store, order_id)
      cancelled == update_status(order, "CANCELLED", NoMsg)
      Ret(ok, obj, calls, ans) ==
        [Outcome("cancel_order", 0, order_id, NoOrder, ok, "none", NoRisk, calls, ans)
           EXCEPT !.obj = obj]
      Raises(obj, kinds) ==
        Refused([Outcome("cancel_order", 0, order_id, NoOrder, FALSE,
                         "OperationalError", NoRisk, << >>, "n/a")
                   EXCEPT !.obj = obj],
                kinds)
  IN  /\ pc = "idle"
      /\ Len(tradeLog) < MaxLog
      /\ IF ~tables
           THEN /\ last' = Raises(NoOrder, {"query"})
                /\ UNCHANGED << store, tradeLog >>
           ELSE IF ~Found(store, order_id)
           THEN /\ last' = Ret(FALSE, NoOrder, << >>, "n/a")
                /\ UNCHANGED << store, tradeLog >>
           ELSE IF is_completed(order)
             THEN /\ last' = Ret(FALSE, order, << >>, "n/a")
                  /\ UNCHANGED << store, tradeLog >>
             ELSE IF ~has_broker_id(order)
               THEN /\ store' = IF save_db = "ok" THEN save(store, cancelled)
                                                  ELSE store
                    /\ last' = IF save_db = "ok"
                                 THEN Ret(TRUE, cancelled, << >>, "n/a")
                                 ELSE Raises(cancelled, {"save"})
                    /\ UNCHANGED tradeLog
               ELSE IF cancel_succeeded(answer)
                 THEN IF save_db = "ok"
                        THEN /\ store' = save(store, cancelled)
                             /\ tradeLog' = log(tradeLog, "INFO", log_db)
                             /\ last' = Refused(Ret(TRUE, cancelled,
                                                    << "cancel_order" >>, answer),
                                                RefusedKinds(log_db, save_db))
                        ELSE /\ last' = Refused(Ret(FALSE, cancelled,
                                                    << "cancel_order" >>, answer),
                                                {"save"})
                             /\ UNCHANGED << store, tradeLog >>
                 ELSE /\ last' = Ret(FALSE, order, << "cancel_order" >>, answer)
                      /\ UNCHANGED << store, tradeLog >>
      /\ pc' = "done"
      /\ UNCHANGED << signals, config, initial_asset, daily_loss, riskCall, scheduler, schedCall, held, nextId, brokerSeen,
                      brokerBook, tables, cur, signalTable, cycle >>

\* the places where cancel_order may stop once Broker.cancel_order returned
\* True: before the save of line 208, or after it and before the audit entry
\* of line 209
CancelStops == {"before_save", "before_log"}

\* cancel_order stops after the broker cancelled the order
cancel_order_stops(order_id, stop) ==
  LET order == get_by_id(store, order_id)
      cancelled == update_status(order, "CANCELLED", NoMsg)
  IN  /\ pc = "idle"
      /\ Found(store, order_id)
      /\ ~is_completed(order)
      /\ has_broker_id(order)
      /\ store' = IF stop = "before_log" THEN save(store, cancelled) ELSE store
      /\ last' = Outcome("cancel_order", 0, order_id, NoOrder, FALSE, "crash",
                         NoRisk, << "cancel_order" >>, "true")
      /\ pc' = "done"
      /\ UNCHANGED << tradeLog, signals, config, initial_asset, daily_loss,
                      riskCall, scheduler, schedCall, held, nextId, brokerSeen,
                      brokerBook, tables, cur, signalTable, cycle >>

\* the largest filled quantity the broker reports
MaxFill == MaxQty + 1

\* the answers Broker.query_order may give: no such order, an exception, or
\* the broker's view of the order
QueryAnswers ==
  [kind : {"absent", "raises"}, status : {"PENDING"}, filled_quantity : {0},
   filled_price : {NoPrice}]
    \cup [kind : {"snapshot"}, status : OrderStatus, filled_quantity : 0..MaxFill,
          filled_price : FillPrices]

\* lines 228-243: the order object sync_order_status ends with
synced(order, answer) ==
  IF has_broker_id(order) /\ answer.kind = "snapshot"
    THEN [order EXCEPT !.status = answer.status,
                       !.filled_quantity = answer.filled_quantity,
                       !.filled_price = answer.filled_price]
    ELSE order

\* whether sync_order_status saves the order
sync_saves(order, answer) ==
  has_broker_id(order) /\ answer.kind = "snapshot"

\* sync_order_status.  The query of line 228 raises when the tables are
\* missing, and that exception leaves the call; an exception of the save of
\* line 239 is caught at line 240 with those of the broker, and line 243
\* returns the order object as lines 235-237 changed it.
sync_order_status(order_id, answer, db) ==
  LET order == get_by_id(store, order_id)
      after == synced(order, answer)
      saved == sync_saves(order, answer) /\ db = "ok"
  IN  /\ pc = "idle"
      /\ IF ~tables
           THEN /\ last' = Refused(Outcome("sync_order_status", 0, order_id,
                                           NoOrder, FALSE, "OperationalError",
                                           NoRisk, << >>, "n/a"),
                                   {"query"})
                /\ UNCHANGED store
           ELSE IF ~Found(store, order_id)
           THEN /\ last' = Outcome("sync_order_status", 0, order_id, NoOrder, FALSE,
                                   "none", NoRisk, << >>, "n/a")
                /\ UNCHANGED store
           ELSE /\ store' = IF saved THEN save(store, after) ELSE store
                /\ last' = [Outcome("sync_order_status", 0, order_id, after,
                                    saved, "none", NoRisk,
                                    IF has_broker_id(order)
                                      THEN << "query_order" >> ELSE << >>,
                                    IF has_broker_id(order)
                                      THEN answer.kind ELSE "n/a")
                              EXCEPT !.snapshot = IF has_broker_id(order)
                                                    THEN answer ELSE NoSnapshot,
                                     !.refused = IF sync_saves(order, answer) /\ ~saved
                                                   THEN {"save"} ELSE {}]
      /\ pc' = "done"
      /\ UNCHANGED << tradeLog, signals, config, initial_asset, daily_loss, riskCall, scheduler, schedCall, held, nextId,
                      brokerSeen, brokerBook, tables, cur, signalTable, cycle >>

\* sync_order_status stops after Broker.query_order returned an order (line
\* 233) and before the save of line 239
sync_order_status_stops(order_id) ==
  LET order == get_by_id(store, order_id)
  IN  /\ pc = "idle"
      /\ Found(store, order_id)
      /\ has_broker_id(order)
      /\ last' = Outcome("sync_order_status", 0, order_id, NoOrder, FALSE,
                         "crash", NoRisk, << "query_order" >>, "snapshot")
      /\ pc' = "done"
      /\ UNCHANGED << store, tradeLog, signals, config, initial_asset, daily_loss,
                      riskCall, scheduler, schedCall, held, nextId, brokerSeen,
                      brokerBook, tables, cur, signalTable, cycle >>

\* the Order objects a caller may hand to OrderRepository.save: an order it
\* read from the store or one it has just built, after update_status or
\* after an assignment to broker_order_id, to the fill or to error_message
SaveInputs ==
  LET built == IF nextId <= MaxOrders
                 THEN {Life(Order(nextId, "A", "BUY", 1, NoPrice, "MARKET", 0))}
                 ELSE {}
      bases == {get_by_id(store, o) : o \in DOMAIN store} \cup built
  IN  {update_status(b, status, NoMsg) : b \in bases, status \in OrderStatus}
        \cup {[b EXCEPT !.broker_order_id = x] : b \in bases, x \in {0} \cup BrokerIds}
        \cup {[b EXCEPT !.filled_quantity = 1, !.filled_price = x] :
                b \in bases, x \in FillPrices}
        \cup {[b EXCEPT !.error_message = x] : b \in bases, x \in {NoMsg, "rejected"}}

\* a caller's OrderRepository.save(order): the lifecycle columns of the
\* stored row are updated, or the row is inserted; when the database raises
\* the session is rolled back and the exception is raised again (lines
\* 112-115)
repo_save(order, db) ==
  /\ pc = "idle"
  /\ store' = IF db = "ok" THEN save(store, order) ELSE store
  /\ nextId' = IF order.id \in DOMAIN store \/ db = "raises"
                 THEN nextId ELSE nextId + 1
  /\ last' = IF db = "ok"
               THEN Outcome("save", 0, order.id, order, TRUE, "none", NoRisk,
                            << >>, "n/a")
               ELSE Refused(Outcome("save", 0, order.id, NoOrder, FALSE,
                                    "OperationalError", NoRisk, << >>, "n/a"),
                            {"save"})
  /\ pc' = "done"
  /\ UNCHANGED << tradeLog, signals, config, initial_asset, daily_loss, riskCall,
                  scheduler, schedCall, held, brokerSeen, brokerBook, tables,
                  cur, signalTable, cycle >>

\* the levels of TradeLogRepository.info, warning and error
LogLevels == {"INFO", "WARNING", "ERROR"}

\* a caller's TradeLogRepository.log(level, message): None is returned
\* whether the row was written or not
trade_log(level, db) ==
  /\ pc = "idle"
  /\ Len(tradeLog) < MaxLog
  /\ tradeLog' = log(tradeLog, level, db)
  /\ last' = Refused(Outcome("log", 0, 0, NoOrder, TRUE, "none", NoRisk, << >>,
                             "n/a"),
                     RefusedKinds(db, "ok"))
  /\ pc' = "done"
  /\ UNCHANGED << store, signals, config, initial_asset, daily_loss, riskCall,
                  scheduler, schedCall, held, nextId, brokerSeen, brokerBook,
                  tables, cur, signalTable, cycle >>

\* Database.drop_tables: the tables are gone, and their rows with them
drop_tables ==
  /\ pc = "idle"
  /\ tables' = FALSE
  /\ store' = << >>
  /\ tradeLog' = << >>
  /\ signalTable' = << >>
  /\ last' = Outcome("drop_tables", 0, 0, NoOrder, TRUE, "none", NoRisk, << >>, "n/a")
  /\ pc' = "done"
  /\ UNCHANGED << signals, config, initial_asset, daily_loss, riskCall, scheduler,
                  schedCall, held, nextId, brokerSeen, brokerBook, cur, cycle >>

\* Database.create_tables: the missing tables are created, empty; the tables
\* that exist are left as they are
create_tables ==
  /\ pc = "idle"
  /\ tables' = TRUE
  /\ last' = Outcome("create_tables", 0, 0, NoOrder, TRUE, "none", NoRisk, << >>,
                     "n/a")
  /\ pc' = "done"
  /\ UNCHANGED << store, tradeLog, signalTable, signals, config, initial_asset,
                  daily_loss, riskCall, scheduler, schedCall, held, nextId,
                  brokerSeen, brokerBook, cur, cycle >>

\* the ids of a set, largest first: order_by(desc(created_at)), ids being
\* given in the order of creation
RECURSIVE Descending(_)
Descending(S) ==
  IF S = {} THEN << >>
  ELSE LET m == CHOOSE x \in S : \A y \in S : y <= x
       IN  << m >> \o Descending(S \ {m})

\* sync_all_active_orders, line 252; the query raises when the tables are
\* missing, and the exception leaves the call
sync_all_active_orders_begin ==
  /\ pc = "idle"
  /\ IF tables
       THEN /\ pc' = "sync_all_active_orders_loop"
            /\ cur' = [Cur("sync_all_active_orders", 0, NoOrder, NoResult)
                         EXCEPT !.queue = Descending(get_active_orders(store)),
                                !.plan = Descending(get_active_orders(store))]
            /\ UNCHANGED last
       ELSE /\ pc' = "done"
            /\ last' = Refused(Outcome("sync_all_active_orders", 0, 0, NoOrder,
                                       FALSE, "OperationalError", NoRisk, << >>,
                                       "n/a"),
                               {"query"})
            /\ UNCHANGED cur
  /\ UNCHANGED << store, tradeLog, signals, config, initial_asset, daily_loss, riskCall, scheduler, schedCall, held, nextId,
                  brokerSeen, brokerBook, tables, signalTable, cycle >>

\* the loop without the try/except of sync_order_status: an exception of
\* Broker.query_order ends the pass
sync_all_active_orders_loop_unguarded(answer, db) ==
  LET order_id == Head(cur.queue)
      order == get_by_id(store, order_id)
      after == synced(order, answer)
      raises == has_broker_id(order) /\ answer.kind = "raises"
  IN  /\ pc = "sync_all_active_orders_loop"
      /\ cur.queue # << >>
      /\ db = "ok"
      /\ store' = IF sync_saves(order, answer) THEN save(store, after) ELSE store
      /\ pc' = IF raises THEN "done" ELSE pc
      /\ cur' = IF raises THEN NoCur
                ELSE [cur EXCEPT !.queue = Tail(@),
                                 !.updated = Append(@, after),
                                 !.visited = Append(@, order_id),
                                 !.seen = Append(@, IF has_broker_id(order)
                                                      THEN answer.kind ELSE "n/a"),
                                 !.calls = IF has_broker_id(order)
                                             THEN Append(@, "query_order") ELSE @,
                                 !.answer = IF has_broker_id(order)
                                              THEN answer.kind ELSE @]
      /\ last' = IF raises
                   THEN Outcome("sync_all_active_orders", 0, 0, NoOrder, FALSE,
                                "Exception", NoRisk, cur.calls, "raises")
                   ELSE last
      /\ UNCHANGED << tradeLog, signals, config, initial_asset, daily_loss, riskCall, scheduler, schedCall, held, nextId,
                      brokerSeen, brokerBook, tables, signalTable, cycle >>

\* one turn of the loop of lines 255-258: sync_order_status(order.id), which
\* returns the changed order object also when its save raised
sync_all_active_orders_loop(answer, db) ==
  LET order_id == Head(cur.queue)
      order == get_by_id(store, order_id)
      after == synced(order, answer)
      saved == sync_saves(order, answer) /\ db = "ok"
  IN  /\ pc = "sync_all_active_orders_loop"
      /\ cur.queue # << >>
      /\ store' = IF saved THEN save(store, after) ELSE store
      /\ cur' = [cur EXCEPT !.queue = Tail(@),
                            !.updated = Append(@, after),
                            !.visited = Append(@, order_id),
                            !.refused = IF sync_saves(order, answer) /\ ~saved
                                          THEN @ \cup {"save"} ELSE @,
                            !.seen = Append(@, IF has_broker_id(order)
                                                 THEN answer.kind ELSE "n/a"),
                            !.calls = IF has_broker_id(order)
                                        THEN Append(@, "query_order") ELSE @,
                            !.answer = IF has_broker_id(order)
                                         THEN answer.kind ELSE @]
      /\ UNCHANGED << tradeLog, signals, config, initial_asset, daily_loss, riskCall, scheduler, schedCall, held, nextId,
                      brokerSeen, brokerBook, tables, pc, last, signalTable, cycle >>

\* the pass stops inside sync_order_status, after Broker.query_order returned
\* an order and before the save
sync_all_active_orders_loop_stops ==
  LET order_id == Head(cur.queue)
      order == get_by_id(store, order_id)
  IN  /\ pc = "sync_all_active_orders_loop"
      /\ cur.queue # << >>
      /\ has_broker_id(order)
      /\ last' = [Outcome("sync_all_active_orders", 0, 0, NoOrder, FALSE, "crash",
                          NoRisk, Append(cur.calls, "query_order"), "snapshot")
                    EXCEPT !.list = cur.updated,
                           !.seen = Append(cur.seen, "snapshot")]
      /\ pc' = "done"
      /\ cur' = NoCur
      /\ UNCHANGED << store, tradeLog, signals, config, initial_asset, daily_loss,
                      riskCall, scheduler, schedCall, held, nextId, brokerSeen,
                      brokerBook, tables, signalTable, cycle >>

\* lines 260-261
sync_all_active_orders_end ==
  /\ pc = "sync_all_active_orders_loop"
  /\ cur.queue = << >>
  /\ pc' = "done"
  /\ cur' = NoCur
  /\ last' = [Outcome("sync_all_active_orders", 0, 0, NoOrder, TRUE, "none",
                      NoRisk, cur.calls, cur.answer)
                EXCEPT !.list = cur.updated, !.seen = cur.seen,
                       !.refused = cur.refused]
  /\ UNCHANGED << store, tradeLog, signals, config, initial_asset, daily_loss, riskCall, scheduler, schedCall, held, nextId,
                  brokerSeen, brokerBook, tables, signalTable, cycle >>

\* a call starts when the caller is between two calls; the inputs of a call
\* are drawn once that is known
Next ==
  \/ return_to_caller
  \/ /\ pc = "idle"
     /\ \E sid \in SignalIds, sig \in SignalInputs, fetch \in {"ok", "broker_raises"},
           account \in Accounts, positions \in PositionLists, db \in DbAnswers :
          execute_signal_begin(sid, sig, fetch, account, positions, db)
  \/ \E answer \in SubmitAnswers : execute_signal_submit(answer)
  \/ \E log_db \in DbAnswers, save_db \in DbAnswers :
       execute_signal_finish(log_db, save_db)
  \/ /\ pc = "idle"
     /\ \E order \in SubmitInputs, db \in DbAnswers : submit_order_begin(order, db)
  \/ \E answer \in SubmitAnswers : submit_order_submit(answer)
  \/ \E db \in DbAnswers : submit_order_finish(db)
  \/ /\ pc = "idle"
     /\ \E order_id \in OrderIds, answer \in CancelAnswers,
           save_db \in DbAnswers, log_db \in DbAnswers :
          cancel_order(order_id, answer, save_db, log_db)
  \/ /\ pc = "idle"
     /\ \E order_id \in OrderIds, answer \in QueryAnswers, db \in DbAnswers :
          sync_order_status(order_id, answer, db)
  \/ /\ pc = "idle"
     /\ \E order \in SaveInputs, db \in DbAnswers : repo_save(order, db)
  \/ sync_all_active_orders_begin
  \/ /\ pc = "sync_all_active_orders_loop"
     /\ \E answer \in QueryAnswers, db \in DbAnswers :
          sync_all_active_orders_loop(answer, db)
  \/ sync_all_active_orders_end
  \/ crash
  \/ \E log_db \in DbAnswers : execute_signal_stops_before_save(log_db)
  \/ \E order_id \in OrderIds, stop \in CancelStops : cancel_order_stops(order_id, stop)
  \/ \E order_id \in OrderIds : sync_order_status_stops(order_id)
  \/ sync_all_active_orders_loop_stops
  \/ \E level \in LogLevels, db \in DbAnswers : trade_log(level, db)
  \/ drop_tables
  \/ create_tables

Spec == Init /\ [][Next]_vars

\* --------------------------------------------- an Order object on its own
\* the Order objects a caller may hold: any lifecycle state the constructor
\* accepts
HeldOrders ==
  [id : {1}, quantity : 1..MaxQty, status : OrderStatus,
   filled_quantity : 0..MaxQty, filled_price : FillPrices,
   broker_order_id : {0} \cup BrokerIds, error_message : Messages]

InitOrder ==
  /\ held \in HeldOrders
  /\ store = << >>
  /\ tradeLog = << >>
  /\ signals = [s \in SignalIds |-> NewSignal]
  /\ config \in RiskConfigs
  /\ initial_asset \in InitialAssets
  /\ daily_loss = 0
  /\ riskCall = NoCall
  /\ scheduler = NoScheduler
  /\ schedCall = NoSchedCall
  /\ signalTable = << >>
  /\ cycle = NoCycle
  /\ nextId = 1
  /\ brokerSeen = {}
  /\ brokerBook = << >>
  /\ tables = TRUE
  /\ pc = "idle"
  /\ cur = NoCur
  /\ last = NoOutcome

\* order.update_status(status, error_message) on the held object
order_update_status(status, error_message) ==
  /\ held' = update_status(held, status, error_message)
  /\ UNCHANGED << store, tradeLog, signals, config, initial_asset, daily_loss, riskCall, scheduler, schedCall, nextId,
                  brokerSeen, brokerBook, tables, pc, cur, last, signalTable, cycle >>

NextOrder ==
  \E status \in OrderStatus, error_message \in Messages :
    order_update_status(status, error_message)

SpecOrder == InitOrder /\ [][NextOrder]_vars


\* ------------------------------------------- a store with several orders
\* number of stored orders when a reconciliation pass starts
MaxStored == 3

\* the rows a pass may find: orders the executor persisted, submitted,
\* reconciled or cancelled, with the broker id they got, or none
StoredRows ==
  [status : {"PENDING", "SUBMITTED", "PARTIAL_FILLED", "CANCELLED"},
   quantity : {1}, filled_quantity : {0}, filled_price : {NoPrice},
   broker_order_id : 0..MaxStored, error_message : {NoMsg}]

InitSync ==
  /\ \E n \in 0..MaxStored :
       /\ store \in {st \in [1..n -> StoredRows] :
                       \A o \in 1..n : st[o].broker_order_id \in {0, o}}
       /\ brokerBook = [o \in 1..n |-> o]
       /\ brokerSeen = 1..n
       /\ nextId = n + 1
  /\ tables = TRUE
  /\ tradeLog = << >>
  /\ signals = [s \in SignalIds |-> NewSignal]
  /\ config \in RiskConfigs
  /\ initial_asset = 0
  /\ daily_loss = 0
  /\ riskCall = NoCall
  /\ scheduler = NoScheduler
  /\ schedCall = NoSchedCall
  /\ signalTable = << >>
  /\ cycle = NoCycle
  /\ held = NoOrder
  /\ pc = "idle"
  /\ cur = NoCur
  /\ last = NoOutcome

\* the answers of Broker.query_order during a pass: nothing, an exception, or
\* a snapshot with any status, reporting either no fill or one share filled
\* at price 1
SyncAnswers ==
  {a \in QueryAnswers :
     \/ a.kind \in {"absent", "raises"}
     \/ a.filled_quantity = 0 /\ a.filled_price = NoPrice
     \/ a.filled_quantity = 1 /\ a.filled_price = 1}

NextSync ==
  \/ sync_all_active_orders_begin
  \/ /\ pc = "sync_all_active_orders_loop"
     /\ \E answer \in SyncAnswers, db \in DbAnswers :
          sync_all_active_orders_loop(answer, db)
  \/ sync_all_active_orders_end
  \/ return_to_caller
  \/ crash
  \/ sync_all_active_orders_loop_stops
  \/ drop_tables
  \/ create_tables

SpecSync == InitSync /\ [][NextSync]_vars


\* ------------------------------------------- TradingSignal objects on their own
\* number of signal objects a caller holds
MaxHeldSignals == 3
\* number of order ids a signal may be linked to
MaxLinks == 4

InitSignal ==
  /\ signals = [s \in 1..MaxHeldSignals |-> NewSignal]
  /\ store = << >>
  /\ tradeLog = << >>
  /\ config \in RiskConfigs
  /\ initial_asset = 0
  /\ daily_loss = 0
  /\ riskCall = NoCall
  /\ scheduler = NoScheduler
  /\ schedCall = NoSchedCall
  /\ signalTable = << >>
  /\ cycle = NoCycle
  /\ held = NoOrder
  /\ nextId = 1
  /\ brokerSeen = {}
  /\ brokerBook = << >>
  /\ tables = TRUE
  /\ pc = "idle"
  /\ cur = NoCur
  /\ last = NoOutcome

\* signal.mark_executed(order_id), as line 95 of execute_signal calls it
signal_mark_executed(sid, order_id) ==
  /\ signals' = [signals EXCEPT ![sid] = mark_executed(@, order_id)]
  /\ UNCHANGED << store, tradeLog, config, initial_asset, daily_loss, riskCall, scheduler, schedCall, held, nextId,
                  brokerSeen, brokerBook, tables, pc, cur, last, signalTable, cycle >>

NextSignal ==
  \E sid \in 1..MaxHeldSignals, order_id \in 1..MaxLinks :
    signal_mark_executed(sid, order_id)

SpecSignal == InitSignal /\ [][NextSignal]_vars

\* ------------------------------------------------ a RiskManager on its own
\* quantity and price of the orders handed to check_order
MaxRiskQty == 2
MaxRiskPrice == 3

\* the orders a caller builds: every direction and order type, with and
\* without a price
RiskOrders ==
  {Order(0, symbol, direction, quantity, price, order_type, 0) :
     symbol \in Symbols, direction \in OrderDirection,
     quantity \in 1..MaxRiskQty,
     price \in {NoPrice} \cup (0..MaxRiskPrice), order_type \in OrderType}

RiskAccounts == [total_asset : {0, 5, 10}]

\* a position bought at 40000 and quoted at 20001: a loss a little under one
\* half, less than half a quantum of profit_loss_ratio away from it
NearHalfLoss ==
  [symbol |-> "A", quantity |-> 1, current_price |-> 20001, avg_cost |-> 40000]

RiskPositions ==
  [symbol : Symbols, quantity : 0..1, current_price : {1, 3}, avg_cost : {0, 2, 3}]
    \cup {NearHalfLoss}

RiskPositionLists == UNION {[1..n -> RiskPositions] : n \in 0..MaxPositions}

\* RiskConfig, enabled or not, with limits scaled to the input ranges
RiskManagerConfigs ==
  [enabled : BOOLEAN, max_order_amount : {2}, max_position_pct : {50},
   max_holdings : {1}, max_daily_loss_pct : {50}, stop_loss_pct : {50},
   take_profit_pct : {50}]

\* the assets handed to set_initial_asset
RiskInitialAssets == {0 - 1, 0, 4, 10}

\* RiskManager.__init__
InitRisk ==
  /\ config \in RiskManagerConfigs
  /\ initial_asset = 0
  /\ daily_loss = 0
  /\ riskCall = NoCall
  /\ scheduler = NoScheduler
  /\ schedCall = NoSchedCall
  /\ signalTable = << >>
  /\ cycle = NoCycle
  /\ signals = << >>
  /\ store = << >>
  /\ tradeLog = << >>
  /\ held = NoOrder
  /\ nextId = 1
  /\ brokerSeen = {}
  /\ brokerBook = << >>
  /\ tables = TRUE
  /\ pc = "idle"
  /\ cur = NoCur
  /\ last = NoOutcome

set_initial_asset(asset) ==
  /\ pc = "idle"
  /\ initial_asset' = asset
  /\ daily_loss' = 0
  /\ riskCall' = [NoCall EXCEPT !.op = "set_initial_asset"]
  /\ pc' = "done"
  /\ UNCHANGED << store, tradeLog, signals, config, held, nextId, brokerSeen,
                  brokerBook, tables, cur, last, scheduler, schedCall,
                  signalTable, cycle >>

reset_daily_loss ==
  /\ pc = "idle"
  /\ daily_loss' = 0
  /\ riskCall' = [NoCall EXCEPT !.op = "reset_daily_loss"]
  /\ pc' = "done"
  /\ UNCHANGED << store, tradeLog, signals, config, initial_asset, held,
                  nextId, brokerSeen, brokerBook, tables, cur, last,
                  scheduler, schedCall, signalTable, cycle >>

\* a caller's check_order(order, account, positions)
risk_check_order(order, account, positions) ==
  /\ pc = "idle"
  /\ riskCall' = [op |-> "check_order", order |-> order, account |-> account,
                  positions |-> positions,
                  result |-> check_order(config, initial_asset, order, account,
                                         positions),
                  results |-> << >>, raised |-> RaisedError(NoRisk)]
  /\ pc' = "done"
  /\ UNCHANGED << store, tradeLog, signals, config, initial_asset, daily_loss,
                  held, nextId, brokerSeen, brokerBook, tables, cur, last,
                  scheduler, schedCall, signalTable, cycle >>

\* a caller's validate_order_or_raise(order, account, positions)
risk_validate_order_or_raise(order, account, positions) ==
  /\ pc = "idle"
  /\ LET result == check_order(config, initial_asset, order, account, positions)
     IN  riskCall' = [op |-> "validate_order_or_raise", order |-> order,
                      account |-> account, positions |-> positions,
                      result |-> result, results |-> << >>,
                      raised |-> RaisedError(result)]
  /\ pc' = "done"
  /\ UNCHANGED << store, tradeLog, signals, config, initial_asset, daily_loss,
                  held, nextId, brokerSeen, brokerBook, tables, cur, last,
                  scheduler, schedCall, signalTable, cycle >>

\* a caller's check_all(account, positions)
risk_check_all(account, positions) ==
  /\ pc = "idle"
  /\ riskCall' = [NoCall EXCEPT
                    !.op = "check_all", !.account = account,
                    !.positions = positions,
                    !.results = check_all(config, initial_asset, account,
                                          positions)]
  /\ pc' = "done"
  /\ UNCHANGED << store, tradeLog, signals, config, initial_asset, daily_loss,
                  held, nextId, brokerSeen, brokerBook, tables, cur, last,
                  scheduler, schedCall, signalTable, cycle >>

NextRisk ==
  \/ \E asset \in RiskInitialAssets : set_initial_asset(asset)
  \/ reset_daily_loss
  \/ \E order \in RiskOrders, account \in RiskAccounts,
        positions \in RiskPositionLists :
       risk_check_order(order, account, positions)
  \/ \E order \in RiskOrders, account \in RiskAccounts,
        positions \in RiskPositionLists :
       risk_validate_order_or_raise(order, account, positions)
  \/ \E account \in RiskAccounts, positions \in RiskPositionLists :
       risk_check_all(account, positions)
  \/ return_to_caller

SpecRisk == InitRisk /\ [][NextRisk]_vars

\* ------------------------------ execute_signals over the stored signals
\* the signals fetch_signals saved: every stored signal is still to execute
InitCycle ==
  /\ signalTable \in [SignalIds -> {signal_to_row(sig, NewSignal) : sig \in SignalInputs}]
  /\ cycle = NoCycle
  /\ signals = [s \in SignalIds |-> NewSignal]
  /\ store = << >>
  /\ tradeLog = << >>
  /\ config \in RiskConfigs
  /\ initial_asset \in InitialAssets
  /\ daily_loss = 0
  /\ riskCall = NoCall
  /\ scheduler = NoScheduler
  /\ schedCall = NoSchedCall
  /\ held = NoOrder
  /\ nextId = 1
  /\ brokerSeen = {}
  /\ brokerBook = << >>
  /\ tables = TRUE
  /\ pc = "idle"
  /\ cur = NoCur
  /\ last = NoOutcome

\* the run is over: what the runs did so far is kept
cycle_over(c) ==
  [NoCycle EXCEPT !.round = c.round + 1, !.called = c.called,
                  !.submitted = c.submitted]

\* execute_signals, lines 89-114: init_database creates the missing tables;
\* broker.connect, whose exception ends the command (lines 127-129); the
\* signal of --id when it is stored, else the pending signals; return when
\* there is none; the account and the positions are fetched once
\* (MiniQMTBroker.get_account and get_positions raise nothing once connected)
execute_signals_begin(by_id, sid, connect, account, positions) ==
  /\ pc = "idle"
  /\ ~cycle.active
  /\ cycle.round < MaxCycles
  /\ tables' = TRUE
  /\ LET selected == IF by_id
                       THEN IF sid \in DOMAIN signalTable THEN << sid >> ELSE << >>
                       ELSE get_pending_signals(signalTable)
     IN  IF connect = "raises"
           THEN /\ pc' = "cycle_end"
                /\ cycle' = [cycle EXCEPT !.active = TRUE, !.by_id = by_id]
           ELSE IF selected = << >>
             THEN /\ pc' = "cycle_end"
                  /\ cycle' = [cycle EXCEPT !.active = TRUE, !.by_id = by_id]
             ELSE /\ pc' = "cycle"
                  /\ cycle' = [cycle EXCEPT !.active = TRUE, !.by_id = by_id,
                                            !.pending = selected,
                                            !.queue = selected,
                                            !.account = account,
                                            !.positions = positions]
  /\ UNCHANGED << store, tradeLog, signals, config, initial_asset, daily_loss,
                  riskCall, scheduler, schedCall, held, nextId, brokerSeen,
                  brokerBook, cur, last, signalTable >>

\* MiniQMTBroker.submit_order, the broker of execute_signals, for an order
\* the executor built: when order.direction is an enum member the order is
\* accepted with a broker order id (lines 198-202 and 222-226), or the
\* terminal refuses it and OrderSubmitError is raised (lines 193-194); when
\* it is a plain string, order.direction.value raises, in simulation before
\* anything is placed (line 221) and else after order_stock placed the order
\* (lines 184 and 196)
MiniQMTSubmitAnswers(order) ==
  {answer \in SubmitAnswers :
     \/ answer.kind = "accept" /\ answer.has_id /\ order.dir_is_enum
     \/ /\ answer.kind = "raise"
        /\ answer.message = "rejected"
        /\ answer.taken => ~order.dir_is_enum}

\* line 90 of the execute_signal a run of execute_signals is in
execute_signals_submit(answer) ==
  /\ pc = "execute_signal_submit"
  /\ BrokerSubmit(answer)
  /\ pc' = "execute_signal_finish"
  /\ cycle' = [cycle EXCEPT !.submitted = Append(@, cur.sid)]
  /\ UNCHANGED << store, tradeLog, signals, config, initial_asset, daily_loss,
                  riskCall, scheduler, schedCall, held, nextId, last,
                  signalTable >>

\* execute_signals, line 119: one step of execute_signal on the next signal
\* of the list, as _to_model built it: lines 77-88, the broker call of line
\* 90, or lines 92-108.  The signal of _to_model went through validation, so
\* under use_enum_values its direction is a plain string and the first step
\* ends at line 77 with AttributeError: the two later steps are reached only
\* by a signal that kept its enum member.
execute_signals_call(answer, db, log_db, save_db) ==
  /\ cycle.active
  /\ \/ /\ pc = "cycle"
        /\ cycle.queue # << >>
        /\ execute_signal_lines_77_88(Head(cycle.queue),
                                      signal_to_model(signalTable[Head(cycle.queue)]),
                                      "given", cycle.account, cycle.positions, db)
     \/ /\ pc = "execute_signal_submit"
        /\ answer \in MiniQMTSubmitAnswers(cur.order)
        /\ execute_signals_submit(answer)
     \/ /\ pc = "execute_signal_finish"
        /\ execute_signal_finish(log_db, save_db)

\* execute_signals, lines 118-125: the call returned or its exception was
\* caught; go on with the next signal
execute_signals_next ==
  /\ pc = "done"
  /\ cycle.active
  /\ cycle' = [cycle EXCEPT !.queue = Tail(@), !.raised = Append(@, last.raised),
                            !.called = Append(@, Head(cycle.queue))]
  /\ last' = NoOutcome
  /\ pc' = IF Tail(cycle.queue) = << >> THEN "cycle_end" ELSE "cycle"
  /\ UNCHANGED << store, tradeLog, signals, config, initial_asset, daily_loss,
                  riskCall, scheduler, schedCall, held, nextId, brokerSeen,
                  brokerBook, tables, cur, signalTable >>

\* execute_signals, lines 127-131: disconnect and return
execute_signals_end ==
  /\ pc = "cycle_end"
  /\ cycle' = cycle_over(cycle)
  /\ pc' = "idle"
  /\ UNCHANGED << store, tradeLog, signals, config, initial_asset, daily_loss,
                  riskCall, scheduler, schedCall, held, nextId, brokerSeen,
                  brokerBook, tables, cur, last, signalTable >>

\* the process stops inside a run of execute_signals
execute_signals_stops ==
  /\ cycle.active
  /\ cycle' = cycle_over(cycle)
  /\ pc' = "idle"
  /\ cur' = NoCur
  /\ last' = NoOutcome
  /\ UNCHANGED << store, tradeLog, signals, config, initial_asset, daily_loss,
                  riskCall, scheduler, schedCall, held, nextId, brokerSeen,
                  brokerBook, tables, signalTable >>

\* the TradingSignal objects a caller may hold for a stored signal: the ones
\* _to_row writes as that row
HeldSignals(row) ==
  {sig \in SignalInputs :
     signal_to_row(sig, NewSignal) = [row EXCEPT !.executed = FALSE, !.order_id = 0]}

\* SignalRepository.save: the executed flag and the order link of an existing
\* row are updated, else the row is inserted
signal_save(table, sid, sig, obj) ==
  IF sid \in DOMAIN table
    THEN [table EXCEPT ![sid] = [@ EXCEPT !.executed = obj.executed,
                                          !.order_id = obj.order_id]]
    ELSE [s \in DOMAIN table \cup {sid} |->
            IF s = sid THEN signal_to_row(sig, obj) ELSE table[s]]

\* the outcome of a call on the signal table: returned, or the exception of
\* the database raised again (lines 447-450 and 473-476 of repository.py)
SignalOutcome(op, sid, db) ==
  IF db = "ok"
    THEN Outcome(op, sid, 0, NoOrder, TRUE, "none", NoRisk, << >>, "n/a")
    ELSE Refused(Outcome(op, sid, 0, NoOrder, FALSE, "OperationalError", NoRisk,
                         << >>, "n/a"),
                 {"save"})

\* SignalProcessor.mark_signal_executed(signal): the signal object is saved
\* as it is, as it was built or after the caller's
\* signal.mark_executed(order_id)
mark_signal_executed(sid, sig, obj, db) ==
  /\ pc = "idle"
  /\ ~cycle.active
  /\ sid \in DOMAIN signalTable => sig \in HeldSignals(signalTable[sid])
  /\ signalTable' = IF db = "ok"
                      THEN signal_save(signalTable, sid, sig, obj)
                      ELSE signalTable
  /\ last' = SignalOutcome("mark_signal_executed", sid, db)
  /\ pc' = "done"
  /\ UNCHANGED << store, tradeLog, signals, config, initial_asset, daily_loss,
                  riskCall, scheduler, schedCall, held, nextId, brokerSeen,
                  brokerBook, tables, cur, cycle >>

\* SignalProcessor.fetch_signals: the data provider hands a signal over and
\* save_batch merges its row into the table
fetch_signals(sid, sig, db) ==
  /\ pc = "idle"
  /\ ~cycle.active
  /\ signalTable' = IF db = "ok"
                      THEN [s \in DOMAIN signalTable \cup {sid} |->
                              IF s = sid THEN signal_to_row(sig, NewSignal)
                                         ELSE signalTable[s]]
                      ELSE signalTable
  /\ last' = SignalOutcome("fetch_signals", sid, db)
  /\ pc' = "done"
  /\ UNCHANGED << store, tradeLog, signals, config, initial_asset, daily_loss,
                  riskCall, scheduler, schedCall, held, nextId, brokerSeen,
                  brokerBook, tables, cur, cycle >>

NextCycle ==
  \/ /\ pc = "idle"
     /\ \E by_id \in BOOLEAN, sid \in SignalIds, connect \in {"ok", "raises"},
           account \in Accounts, positions \in PositionLists :
          execute_signals_begin(by_id, sid, connect, account, positions)
  \/ \E answer \in SubmitAnswers, db \in DbAnswers, log_db \in DbAnswers,
        save_db \in DbAnswers :
       execute_signals_call(answer, db, log_db, save_db)
  \/ execute_signals_next
  \/ execute_signals_end
  \/ execute_signals_stops
  \/ return_to_caller
  \/ \E sid \in SignalIds, sig \in SignalInputs,
        obj \in {NewSignal} \cup {mark_executed(NewSignal, o) : o \in OrderIds},
        db \in DbAnswers :
       mark_signal_executed(sid, sig, obj, db)
  \/ \E sid \in SignalIds, sig \in SignalInputs, db \in DbAnswers :
       fetch_signals(sid, sig, db)
  \/ drop_tables
  \/ create_tables

SpecCycle == InitCycle /\ [][NextCycle]_vars

\* ------------------------------------------- a TradingScheduler on its own
\* days counted from a Monday, and the hours, minutes and seconds of an instant
MaxDay == 6
MaxHour == 4
MaxMinute == 1
MaxSecond == 1

Instants == [day : 0..MaxDay, hour : 0..MaxHour, minute : 0..MaxMinute,
             second : 0..MaxSecond]

\* the "HH:MM" text of a configured time
hhmm(hour, minute) ==
  << DigitChars[(hour \div 10) + 1], DigitChars[(hour % 10) + 1], ":",
     DigitChars[(minute \div 10) + 1], DigitChars[(minute % 10) + 1] >>

\* the hours a window may start or end at
WindowTimes == {hhmm(hour, minute) : hour \in 1..(MaxHour - 1), minute \in 0..MaxMinute}

\* TradingHoursConfig: a morning window followed by an afternoon window
TradingHoursConfigs ==
  {h \in [morning_start : WindowTimes, morning_end : WindowTimes,
          afternoon_start : WindowTimes, afternoon_end : WindowTimes] :
     /\ time_le(parse_time(h.morning_start), parse_time(h.morning_end))
     /\ time_lt(parse_time(h.morning_end), parse_time(h.afternoon_start))
     /\ time_le(parse_time(h.afternoon_start), parse_time(h.afternoon_end))}

\* TradingScheduler.__init__
InitSched ==
  /\ scheduler \in {TradingScheduler(h) : h \in TradingHoursConfigs}
  /\ schedCall = NoSchedCall
  /\ signalTable = << >>
  /\ cycle = NoCycle
  /\ config \in RiskConfigs
  /\ initial_asset = 0
  /\ daily_loss = 0
  /\ riskCall = NoCall
  /\ signals = << >>
  /\ store = << >>
  /\ tradeLog = << >>
  /\ held = NoOrder
  /\ nextId = 1
  /\ brokerSeen = {}
  /\ brokerBook = << >>
  /\ tables = TRUE
  /\ pc = "idle"
  /\ cur = NoCur
  /\ last = NoOutcome

\* a caller's is_trading_time(dt)
sched_is_trading_time(dt) ==
  /\ pc = "idle"
  /\ schedCall' = [op |-> "is_trading_time", dt |-> dt,
                   answer |-> is_trading_time(scheduler, dt), next |-> NoInstant]
  /\ pc' = "done"
  /\ UNCHANGED << store, tradeLog, signals, config, initial_asset, daily_loss,
                  riskCall, scheduler, held, nextId, brokerSeen, brokerBook, tables,
                  cur, last,
                  signalTable, cycle >>

\* a caller's get_next_trading_time(dt)
sched_get_next_trading_time(dt) ==
  /\ pc = "idle"
  /\ schedCall' = [op |-> "get_next_trading_time", dt |-> dt, answer |-> FALSE,
                   next |-> get_next_trading_time(scheduler, dt)]
  /\ pc' = "done"
  /\ UNCHANGED << store, tradeLog, signals, config, initial_asset, daily_loss,
                  riskCall, scheduler, held, nextId, brokerSeen, brokerBook, tables,
                  cur, last,
                  signalTable, cycle >>

NextSched ==
  \/ \E dt \in Instants : sched_is_trading_time(dt)
  \/ \E dt \in Instants : sched_get_next_trading_time(dt)
  \/ return_to_caller

SpecSched == InitSched /\ [][NextSched]_vars

\* ------------------------- reconciliation passes repeated without end
\* number of stored orders while the passes repeat
MaxLive == 2

\* the rows the executor leaves behind: a PENDING row has no broker id yet
\* (lines 88 and 166); a SUBMITTED row has the id of the broker's result
\* (lines 93-94 and 171-172), which may be None; a PARTIAL_FILLED row comes
\* from a snapshot and so has a broker id; a CANCELLED row may have either
LiveRows(o) ==
  {row \in StoredRows :
     /\ row.broker_order_id \in {0, o}
     /\ row.status = "PARTIAL_FILLED" => row.broker_order_id = o
     /\ row.status = "PENDING" => row.broker_order_id = 0}

InitLive ==
  /\ \E n \in 1..MaxLive :
       /\ store \in {st \in [1..n -> StoredRows] : \A o \in 1..n : st[o] \in LiveRows(o)}
       /\ brokerBook = [o \in 1..n |-> o]
       /\ brokerSeen = 1..n
       /\ nextId = n + 1
  /\ tables = TRUE
  /\ tradeLog = << >>
  /\ signals = [s \in SignalIds |-> NewSignal]
  /\ config = CHOOSE c \in RiskConfigs : TRUE
  /\ initial_asset = 0
  /\ daily_loss = 0
  /\ riskCall = NoCall
  /\ scheduler = NoScheduler
  /\ schedCall = NoSchedCall
  /\ signalTable = << >>
  /\ cycle = NoCycle
  /\ held = NoOrder
  /\ pc = "idle"
  /\ cur = NoCur
  /\ last = NoOutcome

\* one turn of the loop of sync_all_active_orders: Broker.query_order gives
\* any of its answers and the database performs the save or raises
sync_all_active_orders_turn ==
  /\ pc = "sync_all_active_orders_loop"
  /\ \E answer \in SyncAnswers, db \in DbAnswers :
       sync_all_active_orders_loop(answer, db)

NextLive ==
  \/ sync_all_active_orders_begin
  \/ sync_all_active_orders_turn
  \/ sync_all_active_orders_end
  \/ return_to_caller
  \/ crash
  \/ sync_all_active_orders_loop_stops

\* the caller runs sync_all_active_orders again and again, and a pass that is
\* not stopped goes on to its end
FairLive ==
  /\ WF_vars(sync_all_active_orders_begin)
  /\ WF_vars(sync_all_active_orders_turn)
  /\ WF_vars(sync_all_active_orders_end)
  /\ WF_vars(return_to_caller)

SpecLive == InitLive /\ [][NextLive]_vars /\ FairLive


\* ------------------------------------------------------------------ claims
\* C1: no update_status call moves an order out of a terminal status: an
\* order whose status is FILLED, CANCELLED, REJECTED or FAILED keeps that
\* status through every update_status call.
C1_terminal_is_final ==
  [][held.status \in Terminal => held'.status = held.status]_vars

\* C2: under execute_signal, submit_order, cancel_order, sync_order_status,
\* sync_all_active_orders and OrderRepository.save, an order id whose stored
\* status is FILLED, CANCELLED, REJECTED or FAILED never gets a non-terminal
\* stored status afterwards.
C2_store_never_resurrects ==
  [][\A o \in DOMAIN store \cap DOMAIN store' :
       store[o].status \in Terminal => store'[o].status \in Terminal]_vars

\* C3: when validate_order_or_raise fails inside execute_signal, the call
\* ends by raising a RiskControlError or a subtype, and nothing else changes:
\* no row is written, Broker.submit_order is not called, no audit entry is
\* appended and the signal is left as it was.
C3_risk_failure_changes_nothing ==
  [][(/\ pc = "idle"
      /\ \/ last'.op = "execute_signal" /\ ~last'.risk.passed
         \/ cur'.op = "execute_signal" /\ ~cur'.risk.passed)
       => /\ pc' = "done"
          /\ last'.raised \in RiskErrors
          /\ last'.calls = << >>
          /\ store' = store
          /\ brokerSeen' = brokerSeen
          /\ brokerBook' = brokerBook
          /\ tradeLog' = tradeLog
          /\ signals' = signals]_vars

\* an execute_signal call has just raised a risk error
C3_witness ==
  /\ pc = "done"
  /\ last.op = "execute_signal"
  /\ ~last.risk.passed
  /\ last.raised \in RiskErrors
  /\ store = << >>

\* C4: in every execution of execute_signal, also one that stops between two
\* steps, Broker.submit_order is invoked for an order only when the store
\* already holds that order's row with status PENDING, and the broker never
\* holds an order the store does not know.
C4_persisted_before_submit ==
  /\ [](\A i \in 1..Len(brokerBook) :
         \/ cur.op = "execute_signal" /\ brokerBook[i] = cur.order.id
         \/ pc = "done" /\ last.op = "execute_signal" /\ brokerBook[i] = last.oid
         => brokerBook[i] \in DOMAIN store)
  /\ [][(cur.op = "execute_signal" /\ cur'.calls # cur.calls /\ cur' # NoCur)
          => /\ cur.order.id \in DOMAIN store
             /\ store[cur.order.id].status = "PENDING"
             /\ cur.order.id \notin brokerSeen]_vars

\* execute_signal stopped right after the broker accepted the order: the
\* store holds its PENDING row
C4_witness ==
  /\ pc = "done"
  /\ last.op = "execute_signal"
  /\ last.raised = "crash"
  /\ last.calls = << "submit_order" >>
  /\ last.answer = "accept"
  /\ last.oid \in DOMAIN store
  /\ store[last.oid].status = "PENDING"
  /\ \E i \in 1..Len(brokerBook) : brokerBook[i] = last.oid

\* C5: when the broker returns success for the submission made by
\* execute_signal (and the database performs every operation of the call),
\* the call returns the order with status SUBMITTED and the
\* broker's order id, the signal is executed and linked to that order,
\* exactly one INFO audit entry is appended, and the stored row has the
\* status and broker order id of the returned order.
C5_success_is_recorded ==
  [][(/\ pc = "execute_signal_finish"
      /\ cur.result.success
      /\ pc' = "done"
      /\ last'.raised # "crash"
      /\ last'.refused = {})
       => /\ last'.raised = "none"
          /\ last'.order.id = cur.order.id
          /\ last'.order.status = "SUBMITTED"
          /\ last'.order.broker_order_id = cur.result.broker_order_id
          /\ signals'[cur.sid] = [executed |-> TRUE, order_id |-> cur.order.id]
          /\ tradeLog' = Append(tradeLog, "INFO")
          /\ store'[cur.order.id].status = "SUBMITTED"
          /\ store'[cur.order.id].broker_order_id = cur.result.broker_order_id]_vars

\* C6: when Broker.submit_order returns success=false or raises during
\* execute_signal, the call raises nothing and returns the order with status
\* REJECTED carrying the failure message of the broker's result; the stored
\* row of the order is REJECTED, one ERROR audit entry is appended and the
\* signal is left as it was, unexecuted and unlinked.
C6_always_carries_message ==
  [][(/\ pc = "execute_signal_finish"
      /\ ~cur.result.success
      /\ pc' = "done"
      /\ last'.raised # "crash")
       => /\ last'.raised = "none"
          /\ last'.order.status = "REJECTED"
          /\ last'.order.error_message = cur.result.message
          /\ store'[cur.order.id].status = "REJECTED"
          /\ tradeLog' = Append(tradeLog, "ERROR")
          /\ signals' = signals]_vars

\* C7: submit_order either returns the order with status SUBMITTED and the
\* broker's order id, that state being the stored one, or raises
\* OrderSubmitError; it raises exactly when the broker returned
\* success=false or the broker call raised, and it never returns an order
\* whose status is REJECTED.
C7_submit_order_returns_or_raises ==
  [][(/\ pc = "submit_order_finish"
      /\ pc' = "done"
      /\ last'.raised # "crash")
       => /\ last'.raised \in {"none", "OrderSubmitError"}
          /\ (last'.raised = "OrderSubmitError") <=> (cur.answer \in {"reject", "raise"})
          /\ last'.order.status # "REJECTED"
          /\ last'.raised = "none" =>
               /\ last'.order.id = cur.order.id
               /\ last'.order.status = "SUBMITTED"
               /\ last'.order.broker_order_id = cur.result.broker_order_id
               /\ store'[cur.order.id].status = "SUBMITTED"
               /\ store'[cur.order.id].broker_order_id = last'.order.broker_order_id]_vars

\* C8: cancel_order returns false, makes no Broker.cancel_order call, raises
\* nothing and leaves the store unchanged when no order with the id is
\* stored or the stored order is FILLED, CANCELLED, REJECTED or FAILED.
C8_cancel_is_a_no_op ==
  [][(/\ pc = "idle"
      /\ last'.op = "cancel_order"
      /\ \/ ~Found(store, last'.oid)
         \/ store[last'.oid].status \in Terminal)
       => /\ ~last'.ok
          /\ last'.calls = << >>
          /\ last'.raised = "none"
          /\ store' = store
          /\ tradeLog' = tradeLog]_vars

\* C9: when the stored order is not terminal and has no broker order id,
\* cancel_order sets its status to CANCELLED, persists that, returns true and
\* makes no Broker.cancel_order call.
C9_local_cancel ==
  [][(/\ pc = "idle"
      /\ last'.op = "cancel_order"
      /\ Found(store, last'.oid)
      /\ store[last'.oid].status \notin Terminal
      /\ store[last'.oid].broker_order_id = 0)
       => /\ last'.ok
          /\ last'.raised = "none"
          /\ last'.calls = << >>
          /\ last'.obj.status = "CANCELLED"
          /\ store' = [store EXCEPT ![last'.oid].status = "CANCELLED"]]_vars

\* C10: when the stored order is not terminal and has a broker order id,
\* cancel_order returns true and the stored status becomes CANCELLED exactly
\* when Broker.cancel_order returns true; when the broker returns false or
\* raises, cancel_order returns false, raises nothing and leaves the stored
\* order unchanged.  A process that stops inside the call returns nothing and
\* is not one of the claim's cases.
C10_broker_cancel ==
  [][(/\ pc = "idle"
      /\ last'.op = "cancel_order"
      /\ last'.raised # "crash"
      /\ Found(store, last'.oid)
      /\ store[last'.oid].status \notin Terminal
      /\ store[last'.oid].broker_order_id # 0)
       => /\ last'.calls = << "cancel_order" >>
          /\ last'.answer \in CancelAnswers
          /\ last'.raised = "none"
          /\ last'.ok <=> (last'.answer = "true")
          /\ (store'[last'.oid].status = "CANCELLED") <=> (last'.answer = "true")
          /\ last'.answer = "true" =>
               store' = [store EXCEPT ![last'.oid].status = "CANCELLED"]
          /\ last'.answer # "true" => store' = store]_vars

\* C11: sync_order_status changes the stored order only when the order
\* exists, has a broker order id and Broker.query_order returns a snapshot,
\* and the stored status, filled quantity and filled price are then the
\* snapshot's.  For an unknown id the call returns nothing; without a broker
\* id (no query is made), with the broker returning nothing or with the query
\* raising, it returns the local order, raises nothing and leaves the store
\* unchanged.  A process that stops inside the call returns nothing and is
\* not one of the claim's cases.
C11_stored_equals_snapshot ==
  [][(/\ pc = "idle"
      /\ last'.op = "sync_order_status"
      /\ last'.raised # "crash")
       => LET oid == last'.oid
              returned == last'.order
          IN  /\ last'.raised = "none"
              /\ ~Found(store, oid) =>
                   /\ returned = NoOrder
                   /\ last'.calls = << >>
                   /\ store' = store
              /\ (Found(store, oid) /\ store[oid].broker_order_id = 0) =>
                   /\ returned = get_by_id(store, oid)
                   /\ last'.calls = << >>
                   /\ store' = store
              /\ (Found(store, oid) /\ store[oid].broker_order_id # 0) =>
                   /\ last'.calls = << "query_order" >>
                   /\ last'.answer \in {"absent", "raises", "snapshot"}
                   /\ last'.answer # "snapshot" =>
                        /\ returned = get_by_id(store, oid)
                        /\ store' = store
                   /\ last'.answer = "snapshot" =>
                        store' =
                          [store EXCEPT
                             ![oid].status = last'.snapshot.status,
                             ![oid].filled_quantity = last'.snapshot.filled_quantity,
                             ![oid].filled_price = last'.snapshot.filled_price]]_vars

\* C12: one sync_all_active_orders pass calls sync_order_status exactly once
\* for every order the active query returned (the orders stored as SUBMITTED
\* or PARTIAL_FILLED, latest first) and for no other order, in the order of
\* the query, and a failing broker query for one order does not keep the
\* later ones from being reconciled.
C12_one_pass ==
  /\ [][(pc = "idle" /\ pc' = "sync_all_active_orders_loop")
          => /\ \A o \in DOMAIN store :
                  (store[o].status \in {"SUBMITTED", "PARTIAL_FILLED"})
                    <=> (\E i \in 1..Len(cur'.plan) : cur'.plan[i] = o)
             /\ \A i, j \in 1..Len(cur'.plan) : i < j => cur'.plan[i] > cur'.plan[j]
             /\ cur'.queue = cur'.plan
             /\ cur'.visited = << >>]_vars
  /\ [][(pc = "sync_all_active_orders_loop" /\ pc' # "done")
          => /\ pc' = "sync_all_active_orders_loop"
             /\ cur.queue # << >>
             /\ cur'.visited = Append(cur.visited, Head(cur.queue))
             /\ cur'.queue = Tail(cur.queue)
             /\ cur'.plan = cur.plan]_vars
  /\ [](pc = "sync_all_active_orders_loop" => cur.visited \o cur.queue = cur.plan)
  /\ [][(pc = "sync_all_active_orders_loop" /\ pc' = "done" /\ last'.raised # "crash")
          => /\ last'.raised = "none"
             /\ cur.queue = << >>
             /\ cur.visited = cur.plan]_vars

\* a pass over three active orders has ended; the query for the second one
\* raised and the third one was reconciled from a snapshot
C12_witness ==
  /\ pc = "done"
  /\ last.op = "sync_all_active_orders"
  /\ last.raised = "none"
  /\ last.seen = << "snapshot", "raises", "snapshot" >>
  /\ store[1].status = "FILLED"

\* C13: sync_all_active_orders returns exactly the orders whose state was
\* refreshed from the broker in that pass: the returned list holds the orders
\* for which Broker.query_order gave a snapshot, in the order of the pass, and
\* an order whose query raised is not in it (the database performing every
\* save of the pass).
C13_returns_refreshed_only ==
  [][(/\ pc = "sync_all_active_orders_loop"
      /\ pc' = "done"
      /\ last'.raised = "none"
      /\ last'.refused = {})
       => /\ Len(last'.list) =
               Cardinality({i \in 1..Len(cur.seen) : cur.seen[i] = "snapshot"})
          /\ \A i \in 1..Len(cur.seen) :
               cur.seen[i] = "raises"
                 => ~\E k \in 1..Len(last'.list) : last'.list[k].id = cur.visited[i]]_vars

\* C14: once a signal has executed=true its linked order id never changes:
\* over any sequence of mark_executed calls, those of execute_signal
\* included, an executed signal keeps the order id it was first linked to.
C14_order_id_is_immutable ==
  [][\A s \in DOMAIN signals :
       signals[s].executed => signals'[s].order_id = signals[s].order_id]_vars

\* C15: in every reachable state every order, in the store and in memory,
\* has 0 <= filled_quantity <= quantity, also after sync_order_status has
\* copied the filled quantity the broker reported.
C15_filled_within_quantity ==
  /\ \A o \in DOMAIN store :
       /\ 0 <= store[o].filled_quantity
       /\ store[o].filled_quantity <= store[o].quantity
  /\ 0 <= last.order.filled_quantity
  /\ last.order.filled_quantity <= last.order.quantity
  /\ \A i \in 1..Len(last.list) :
       /\ 0 <= last.list[i].filled_quantity
       /\ last.list[i].filled_quantity <= last.list[i].quantity

\* C16: with risk enabled, check_order returns the result of the first
\* failing rule in the order order_amount, position_limit, holdings_limit,
\* daily_loss (the earliest one when several fail), and it returns
\* passed = TRUE with rule "all" exactly when all four rules pass.
C16_first_failing_rule ==
  (riskCall.op = "check_order" /\ config.enabled) =>
    LET rules ==
          << check_order_amount(config, riskCall.order),
             check_position_limit(config, riskCall.order, riskCall.account,
                                  riskCall.positions),
             check_holdings_limit(config, riskCall.order, riskCall.positions),
             check_daily_loss(config, initial_asset, riskCall.account) >>
        failing == {i \in 1..4 : ~rules[i].passed}
    IN  /\ <<rules[1].rule, rules[2].rule, rules[3].rule, rules[4].rule>>
             = <<"order_amount", "position_limit", "holdings_limit", "daily_loss">>
        /\ \A i \in failing :
             (\A j \in failing : i <= j) => riskCall.result = rules[i]
        /\ (riskCall.result = RiskCheckResult(TRUE, "all")) <=> (failing = {})
        /\ riskCall.result.passed <=> (failing = {})

\* a check_order call where the order-amount rule and the daily-loss rule
\* both fail and the order-amount result is the one returned
C16_witness ==
  /\ riskCall.op = "check_order"
  /\ config.enabled
  /\ ~check_order_amount(config, riskCall.order).passed
  /\ ~check_daily_loss(config, initial_asset, riskCall.account).passed
  /\ riskCall.result = RiskCheckResult(FALSE, "order_amount")

\* C17: with enabled = FALSE, check_order returns passed = TRUE with rule
\* "disabled" for every order, account and position list, whatever the
\* order's amount or direction.
C17_disabled_passes ==
  (riskCall.op = "check_order" /\ ~config.enabled) =>
    riskCall.result = RiskCheckResult(TRUE, "disabled")

\* a check_order call with risk disabled on a BUY order whose amount is over
\* max_order_amount, on an account that has lost more than the daily limit
C17_witness ==
  /\ riskCall.op = "check_order"
  /\ ~config.enabled
  /\ riskCall.order.direction = "BUY"
  /\ riskCall.order.price # NoPrice
  /\ riskCall.order.price * riskCall.order.quantity > config.max_order_amount
  /\ initial_asset > 0
  /\ (initial_asset - riskCall.account.total_asset) * 100
       > config.max_daily_loss_pct * initial_asset
  /\ riskCall.result.passed

\* C18: with risk enabled, every LIMIT order with price * quantity over
\* max_order_amount gets passed = FALSE with rule "order_amount" from
\* check_order, and for every MARKET order the order-amount check passes,
\* whatever price the order carries.
C18_order_amount ==
  (riskCall.op = "check_order" /\ config.enabled) =>
    /\ ( /\ riskCall.order.order_type = "LIMIT"
         /\ riskCall.order.price # NoPrice
         /\ riskCall.order.price * riskCall.order.quantity
              > config.max_order_amount )
         => riskCall.result = RiskCheckResult(FALSE, "order_amount")
    /\ riskCall.order.order_type = "MARKET"
         => riskCall.result # RiskCheckResult(FALSE, "order_amount")

\* C19 (as stated): with risk enabled, every BUY order for which the held
\* market value of the order's symbol plus price * quantity exceeds
\* total_asset * max_position_ratio gets passed = FALSE with rule
\* "position_limit" from check_order, and no SELL order gets a failing
\* position_limit result.
C19_position_limit_always_reported ==
  (riskCall.op = "check_order" /\ config.enabled) =>
    LET order == riskCall.order
        i == FirstIndex(riskCall.positions, order.symbol)
        held_value == IF i = 0 THEN 0
                      ELSE riskCall.positions[i].quantity
                             * riskCall.positions[i].current_price
        notional == IF order.price = NoPrice THEN 0
                    ELSE order.price * order.quantity
        exceeds == (held_value + notional) * 100
                     > riskCall.account.total_asset * config.max_position_pct
    IN  /\ (order.direction = "BUY" /\ exceeds)
             => riskCall.result = RiskCheckResult(FALSE, "position_limit")
        /\ order.direction = "SELL"
             => riskCall.result # RiskCheckResult(FALSE, "position_limit")

\* C19 (amended): with risk enabled, a BUY order whose exposure (market value
\* of the first listed position of its symbol, plus price * quantity, a
\* missing price counting as 0) exceeds total_asset * max_position_ratio gets
\* the failing position_limit result when its amount is within
\* max_order_amount, and the failing order_amount result when it is not; a
\* failing position_limit result is returned for no other order, in
\* particular for no SELL order.
C19_position_limit ==
  (riskCall.op = "check_order" /\ config.enabled) =>
    LET order == riskCall.order
        i == FirstIndex(riskCall.positions, order.symbol)
        held_value == IF i = 0 THEN 0
                      ELSE riskCall.positions[i].quantity
                             * riskCall.positions[i].current_price
        notional == IF order.price = NoPrice THEN 0
                    ELSE order.price * order.quantity
        exceeds == (held_value + notional) * 100
                     > riskCall.account.total_asset * config.max_position_pct
        amount_ok == order.price = NoPrice
                       \/ order.price * order.quantity <= config.max_order_amount
    IN  /\ (order.direction = "BUY" /\ exceeds /\ amount_ok)
             => riskCall.result = RiskCheckResult(FALSE, "position_limit")
        /\ (order.direction = "BUY" /\ exceeds /\ ~amount_ok)
             => riskCall.result = RiskCheckResult(FALSE, "order_amount")
        /\ riskCall.result = RiskCheckResult(FALSE, "position_limit")
             => (order.direction = "BUY" /\ exceeds /\ amount_ok)
        /\ order.direction = "SELL"
             => riskCall.result # RiskCheckResult(FALSE, "position_limit")

\* a check_order call on a BUY order within max_order_amount that the held
\* position of its symbol alone takes over the position limit, answered with
\* the failing position_limit result
C19_witness ==
  /\ riskCall.op = "check_order"
  /\ config.enabled
  /\ riskCall.order.direction = "BUY"
  /\ riskCall.order.price = 1
  /\ riskCall.order.quantity = 1
  /\ riskCall.account.total_asset = 5
  /\ Len(riskCall.positions) >= 1
  /\ riskCall.positions[1].symbol = riskCall.order.symbol
  /\ market_value(riskCall.positions[1]) = 3
  /\ riskCall.result = RiskCheckResult(FALSE, "position_limit")

\* C20: the daily-loss rule passes for every account while the baseline is
\* <= 0; with a baseline B > 0 it fails exactly when
\* (B - total_asset) / B > max_daily_loss_ratio, for BUY and SELL orders
\* alike; and the baseline changes in no call but set_initial_asset, so it
\* stays B through check_order, check_all and reset_daily_loss.
C20_daily_loss ==
  /\ [](LET over == /\ initial_asset > 0
                    /\ (initial_asset - riskCall.account.total_asset) * 100
                         > config.max_daily_loss_pct * initial_asset
            earlier_pass ==
              /\ check_order_amount(config, riskCall.order).passed
              /\ check_position_limit(config, riskCall.order, riskCall.account,
                                      riskCall.positions).passed
              /\ check_holdings_limit(config, riskCall.order,
                                      riskCall.positions).passed
        IN  /\ riskCall.op = "check_all"
                 => riskCall.results[1] = RiskCheckResult(~over, "daily_loss")
            /\ (riskCall.op = "check_order" /\ config.enabled) =>
                 /\ over => ~riskCall.result.passed
                 /\ (over /\ earlier_pass)
                      => riskCall.result = RiskCheckResult(FALSE, "daily_loss")
                 /\ riskCall.result.rule = "daily_loss"
                      => (over /\ ~riskCall.result.passed))
  /\ [][initial_asset' # initial_asset
         => riskCall'.op = "set_initial_asset"]_vars

\* a SELL order checked after the baseline was set to 10, on an account that
\* has lost more than the limit, answered with the failing daily_loss result
C20_witness ==
  /\ riskCall.op = "check_order"
  /\ config.enabled
  /\ initial_asset = 10
  /\ riskCall.account.total_asset = 0
  /\ riskCall.order.direction = "SELL"
  /\ riskCall.result = RiskCheckResult(FALSE, "daily_loss")

\* C21: _check_stop_loss returns passed = FALSE exactly for the positions with
\* quantity > 0 whose profit/loss ratio, taken exactly as
\* (market_value - cost_value) / cost_value and as 0 when cost_value is 0, is
\* at most -stop_loss_ratio; positions with quantity <= 0 always pass.
C21_stop_loss_exact ==
  riskCall.op = "check_all" =>
    \A k \in 1..Len(riskCall.positions) :
      LET position == riskCall.positions[k]
          mv == position.quantity * position.current_price
          cost == position.quantity * position.avg_cost
          at_most_stop ==
            IF cost = 0 THEN 0 >= config.stop_loss_pct
            ELSE (mv - cost) * 100 <= (0 - config.stop_loss_pct) * cost
      IN  riskCall.results[3 * k - 1] =
            RiskCheckResult(~(position.quantity > 0 /\ at_most_stop), "stop_loss")

\* C22: validate_order_or_raise raises exactly when check_order returns
\* passed = FALSE; the raised error is a PositionLimitError for rule
\* "position_limit", a DailyLossLimitError for "daily_loss", a StopLossError
\* for "stop_loss" and a plain RiskControlError carrying the rule name for any
\* other rule, each with the result's message; it returns normally when
\* check_order passes.
C22_raises_by_rule ==
  riskCall.op = "validate_order_or_raise" =>
    LET result == riskCall.result
        raised == riskCall.raised
    IN  /\ result = check_order(config, initial_asset, riskCall.order,
                                riskCall.account, riskCall.positions)
        /\ (raised.kind = "none") <=> result.passed
        /\ ~result.passed =>
             /\ raised.message = << result.rule, FALSE >>
             /\ result.rule = "position_limit" => raised.kind = "PositionLimitError"
             /\ result.rule = "daily_loss" => raised.kind = "DailyLossLimitError"
             /\ result.rule = "stop_loss" => raised.kind = "StopLossError"
             /\ result.rule \notin {"position_limit", "daily_loss", "stop_loss"}
                  => (raised.kind = "RiskControlError" /\ raised.rule = result.rule)

\* a validate_order_or_raise call that raised a DailyLossLimitError
C22_witness ==
  /\ riskCall.op = "validate_order_or_raise"
  /\ riskCall.result = RiskCheckResult(FALSE, "daily_loss")
  /\ riskCall.raised.kind = "DailyLossLimitError"

\* C23: with enabled = FALSE, every result returned by check_all has
\* passed = TRUE, for every account and position list.
C23_check_all_disabled ==
  (riskCall.op = "check_all" /\ ~config.enabled) =>
    \A k \in 1..Len(riskCall.results) : riskCall.results[k].passed

\* C24: is_trading_time(instant) is FALSE for every Saturday and Sunday
\* instant, and for a Monday-Friday instant it is TRUE exactly when the time
\* of day t satisfies morning_start <= t <= morning_end or
\* afternoon_start <= t <= afternoon_end, both ends of each window included.
C24_is_trading_time ==
  schedCall.op = "is_trading_time" =>
    LET dt == schedCall.dt
        T(x) == (x.hour * 60 + x.minute) * 60 + x.second
        in_window ==
          \/ T(scheduler.morning_start) <= T(dt) /\ T(dt) <= T(scheduler.morning_end)
          \/ T(scheduler.afternoon_start) <= T(dt)
               /\ T(dt) <= T(scheduler.afternoon_end)
    IN  schedCall.answer <=> (dt.day % 7 \in 0..4 /\ in_window)

\* is_trading_time answered TRUE for a Friday instant at the very end of the
\* morning window
C24_witness ==
  /\ schedCall.op = "is_trading_time"
  /\ schedCall.dt.day = 4
  /\ Time(schedCall.dt.hour, schedCall.dt.minute, schedCall.dt.second)
       = scheduler.morning_end
  /\ scheduler.morning_start # scheduler.morning_end
  /\ schedCall.answer

\* C25: get_next_trading_time(instant) returns the same day's morning start
\* when the time of day is before the morning start, the same day's afternoon
\* start when it is strictly between the morning end and the afternoon start,
\* and none in every other case; it never returns an instant on a later day.
C25_next_trading_time ==
  schedCall.op = "get_next_trading_time" =>
    LET dt == schedCall.dt
        T(x) == (x.hour * 60 + x.minute) * 60 + x.second
        before == T(dt) < T(scheduler.morning_start)
        between == T(scheduler.morning_end) < T(dt)
                     /\ T(dt) < T(scheduler.afternoon_start)
        at(start) == [day |-> dt.day, hour |-> start.hour,
                      minute |-> start.minute, second |-> 0]
    IN  /\ before => schedCall.next = at(scheduler.morning_start)
        /\ between => schedCall.next = at(scheduler.afternoon_start)
        /\ (~before /\ ~between) => schedCall.next = NoInstant
        /\ schedCall.next # NoInstant => schedCall.next.day = dt.day

\* get_next_trading_time asked on a Wednesday between the two windows, at an
\* instant that is not a whole minute, answering that day's afternoon start
C25_witness ==
  /\ schedCall.op = "get_next_trading_time"
  /\ schedCall.dt.day = 2
  /\ schedCall.dt.second = 1
  /\ schedCall.next # NoInstant
  /\ schedCall.next.day = 2
  /\ Time(schedCall.next.hour, schedCall.next.minute, schedCall.next.second)
       = scheduler.afternoon_start

C27_store_equals_object ==
  ( /\ pc = "done"
    /\ last.op \in {"execute_signal", "submit_order", "cancel_order",
                    "sync_order_status"}
    /\ last.obj.id \in DOMAIN store )
    => /\ store[last.obj.id].status = last.obj.status
       /\ store[last.obj.id].broker_order_id = last.obj.broker_order_id

\* C28: PENDING is only an initial status: once the stored status of an order
\* is SUBMITTED or any later status, no operation of the executor,
\* sync_order_status with any status the broker may report included, sets the
\* stored status to PENDING again.
C28_pending_is_initial ==
  [][\A o \in DOMAIN store \cap DOMAIN store' :
       (store[o].status # "PENDING" /\ last'.op # "save")
         => store'[o].status # "PENDING"]_vars


\* C29: when sync_all_active_orders is run again and again and, from some
\* point on, Broker.query_order answers every query with a terminal status,
\* every order stored as SUBMITTED or PARTIAL_FILLED with a broker order id
\* ends up stored with a terminal status.  The statement is taken with two
\* more hypotheses in its favour: from that point on no process stops inside
\* a pass and the database performs every save.
C29_active_orders_become_terminal ==
  (<>[][/\ last'.raised # "crash"
        /\ cur'.refused \subseteq cur.refused
        /\ Len(cur'.calls) > Len(cur.calls) =>
             /\ cur'.answer = "snapshot"
             /\ cur'.updated[Len(cur'.updated)].status \in Terminal]_vars)
    => \A o \in 1..MaxLive :
         (/\ o \in DOMAIN store
          /\ store[o].status \in {"SUBMITTED", "PARTIAL_FILLED"}
          /\ store[o].broker_order_id # 0)
           ~> (o \in DOMAIN store /\ store[o].status \in Terminal)

\* C30: between two calls, also after the process stopped in the middle of
\* execute_signal or submit_order, a stored order that is not terminal and has
\* no broker id is not among the orders the broker accepted, so cancelling it
\* locally leaves nothing live at the broker
C30_no_broker_id_not_at_broker ==
  pc \in {"idle", "done"} =>
    \A o \in DOMAIN store :
      (store[o].status \notin Terminal /\ store[o].broker_order_id = 0)
        => \A b \in 1..Len(brokerBook) : brokerBook[b] # o

====
